---------------------------- MODULE Spec2Model ----------------------------
(***************************************************************************)
(* Two-step scan / validate / print state machine of the label-printing    *)
(* application (ScanPrintTab.tsx), with the stores, the printer service    *)
(* and the CPCL generator it drives.                                       *)
(*                                                                         *)
(* JavaScript strings are modelled as sequences of one-character strings,  *)
(* so that trimming, prefix matching, substring tests and display-name     *)
(* formatting are computed the way the code computes them.                 *)
(***************************************************************************)
EXTENDS Integers, Sequences, FiniteSets, TLC

(***************************************************************************)
(* Bounds of the model.                                                    *)
(***************************************************************************)
\* largest number of counted outcomes (scan counter plus error counter)
MaxOutcomes == 3

(***************************************************************************)
(* Strings.                                                                *)
(***************************************************************************)
\* JavaScript null / undefined
Null == <<"<null>">>

\* JavaScript falsiness of a string-or-null value: null and '' are falsy
Falsy(x) == x = Null \/ x = <<>>

\* characters removed by String.prototype.trim
WhiteSpace == {" ", "\t", "\n", "\r"}

\* the scanner suffix characters of the regexp /[\r\n\t]+$/
SuffixChars == {"\r", "\n", "\t"}

RECURSIVE DropLeading(_, _)
DropLeading(s, cs) ==
    IF s # <<>> /\ Head(s) \in cs THEN DropLeading(Tail(s), cs) ELSE s

RECURSIVE DropTrailing(_, _)
DropTrailing(s, cs) ==
    IF s # <<>> /\ s[Len(s)] \in cs
    THEN DropTrailing(SubSeq(s, 1, Len(s) - 1), cs)
    ELSE s

\* String.prototype.trim
Trim(s) == DropTrailing(DropLeading(s, WhiteSpace), WhiteSpace)

\* String.prototype.startsWith
StartsWith(s, p) == Len(p) <= Len(s) /\ SubSeq(s, 1, Len(p)) = p

\* String.prototype.includes
Includes(s, sub) ==
    \E i \in 1..(Len(s) + 1) :
        /\ i + Len(sub) - 1 <= Len(s)
        /\ SubSeq(s, i, i + Len(sub) - 1) = sub

LowerLetters == <<"a", "b", "c", "d", "e", "f", "g", "h", "i", "j", "k", "l", "m",
                  "n", "o", "p", "q", "r", "s", "t", "u", "v", "w", "x", "y", "z">>
UpperLetters == <<"A", "B", "C", "D", "E", "F", "G", "H", "I", "J", "K", "L", "M",
                  "N", "O", "P", "Q", "R", "S", "T", "U", "V", "W", "X", "Y", "Z">>

IsUpper(c) == \E i \in 1..Len(UpperLetters) : UpperLetters[i] = c

\* String.prototype.toUpperCase on one character
ToUpper(c) ==
    IF \E i \in 1..Len(LowerLetters) : LowerLetters[i] = c
    THEN UpperLetters[CHOOSE i \in 1..Len(LowerLetters) : LowerLetters[i] = c]
    ELSE c

\* variant: no normalisation
normalizeSerial_noop(serial) == serial

\* normalizeSerial: trim, then strip trailing CR / LF / Tab
normalizeSerial(serial) == DropTrailing(Trim(serial), SuffixChars)

(***************************************************************************)
(* Label types and their display names (utils/labelTypes.ts).              *)
(***************************************************************************)
Str_dualBand == <<"d", "u", "a", "l", "B", "a", "n", "d">>
Str_triBand == <<"t", "r", "i", "B", "a", "n", "d">>
Str_newDualBand == <<"n", "e", "w", "D", "u", "a", "l", "B", "a", "n", "d">>
Str_DualBandName == <<"D", "u", "a", "l", " ", "B", "a", "n", "d">>
Str_TriBandName == <<"T", "r", "i", " ", "B", "a", "n", "d">>
Str_NewDualBandName == <<"N", "e", "w", " ", "D", "u", "a", "l", " ", "B", "a", "n", "d">>

BUILT_IN_LABEL_TYPES ==
    << [value |-> Str_dualBand, displayName |-> Str_DualBandName],
       [value |-> Str_triBand, displayName |-> Str_TriBandName],
       [value |-> Str_newDualBand, displayName |-> Str_NewDualBandName] >>

\* split(/(?=[A-Z])/).map(capitalise first letter).join(' ')
RECURSIVE SplitCapitalize(_, _)
SplitCapitalize(s, i) ==
    IF i > Len(s) THEN <<>>
    ELSE (IF i = 1 THEN <<ToUpper(s[i])>>
          ELSE IF IsUpper(s[i]) THEN <<" ", s[i]>>
          ELSE <<s[i]>>) \o SplitCapitalize(s, i + 1)

\* variant: the raw label type in place of its display name
getLabelTypeDisplayName_raw(labelType) == labelType

getLabelTypeDisplayName(labelType) ==
    IF \E i \in 1..Len(BUILT_IN_LABEL_TYPES) : BUILT_IN_LABEL_TYPES[i].value = labelType
    THEN BUILT_IN_LABEL_TYPES[
             CHOOSE i \in 1..Len(BUILT_IN_LABEL_TYPES) :
                 /\ BUILT_IN_LABEL_TYPES[i].value = labelType
                 /\ \A j \in 1..(i - 1) : BUILT_IN_LABEL_TYPES[j].value # labelType
         ].displayName
    ELSE SplitCapitalize(labelType, 1)


(***************************************************************************)
(* Log entries (state/logStore.ts).  An entry keeps its level and the      *)
(* fixed part of its message; interpolated values and timestamps are       *)
(* dropped.  The model observes the head of the log: its newest entry.     *)
(***************************************************************************)
LogEntry(level, msg) == [level |-> level, msg |-> msg]

\* logStore.addLog for each entry in turn: the newest entry becomes the head
AddLogs(logs, entries) ==
    IF entries = <<>> THEN logs ELSE <<entries[Len(entries)]>>

(***************************************************************************)
(* Unit conversion (printing/previewUnits.ts).  Millimetres are integers   *)
(* here; 203 / 25.4 = 1015 / 127, and Math.round rounds half up.           *)
(***************************************************************************)
DPI == 203

\* Math.round((mm / 25.4) * 203) for an integer mm
mmToDots(mm) == (2 * mm * 1015 + 127) \div 254

(***************************************************************************)
(* JavaScript numbers that are not whole: a finite number is a count q of  *)
(* 1/ScaleDenominator parts, and NaN and the two infinities are kept as    *)
(* values of their own.                                                    *)
(***************************************************************************)
ScaleDenominator == 4

Num(q) == [k |-> "num", q |-> q]
NaN == [k |-> "nan", q |-> 0]
PosInfinity == [k |-> "inf", q |-> 0]
NegInfinity == [k |-> "ninf", q |-> 0]
Whole(i) == Num(i * ScaleDenominator)

isFinite(n) == n.k = "num"

\* n <= 0 as JavaScript compares: false for NaN
LessOrEqualZero(n) == (n.k = "num" /\ n.q <= 0) \/ n.k = "ninf"

\* Math.round: the nearest whole number, halves upwards; NaN and the
\* infinities are returned unchanged
MathRound(n) ==
    IF n.k = "num"
    THEN Whole((2 * n.q + ScaleDenominator) \div (2 * ScaleDenominator))
    ELSE n

\* heightMm * scale for a whole heightMm
TimesWhole(i, n) ==
    IF n.k = "num" THEN Num(i * n.q)
    ELSE IF n.k = "nan" \/ i = 0 THEN NaN
    ELSE IF (n.k = "inf") = (i > 0) THEN PosInfinity
    ELSE NegInfinity

\* mmToDots for a number of this kind: Math.round((mm / 25.4) * 203)
mmToDotsNumber_floor(mm) ==
    IF mm.k = "num"
    THEN Whole((mm.q * 1015) \div (127 * ScaleDenominator))
    ELSE mm

mmToDotsNumber(mm) ==
    IF mm.k = "num"
    THEN Whole((2 * mm.q * 1015 + 127 * ScaleDenominator)
                  \div (254 * ScaleDenominator))
    ELSE mm

\* preview pixels as fractions num / den
CSS_PX_PER_INCH == 96

Frac(num, den) == [num |-> num, den |-> den]

\* dots * (25.4 / 203) * (96 / 25.4) for a whole number of dots, which is
\* dots * 96 / 203
dotsToPx(dots) == Frac(dots * CSS_PX_PER_INCH, DPI)

\* mm * (96 / 25.4) for a finite number of millimetres; 1 / 25.4 = 5 / 127
mmToPx(mm) == Frac(mm.q * CSS_PX_PER_INCH * 5, 127 * ScaleDenominator)

(***************************************************************************)
(* Symbology table (printing/cpclBarcodeMapping.ts).                       *)
(***************************************************************************)
Str_CODE128 == <<"C", "O", "D", "E", "1", "2", "8">>
Str_CODE39 == <<"C", "O", "D", "E", "3", "9">>
Str_EAN13 == <<"E", "A", "N", "1", "3">>
Str_EAN8 == <<"E", "A", "N", "8">>
Str_UPCA == <<"U", "P", "C", "A">>
Str_UPCE == <<"U", "P", "C", "E">>
Str_I2OF5 == <<"I", "2", "O", "F", "5">>
Str_CODABAR == <<"C", "O", "D", "A", "B", "A", "R">>
Str_128 == <<"1", "2", "8">>
Str_39 == <<"3", "9">>

BarcodeMappingOf(key, token) ==
    [key |-> key, cpclToken |-> token, recommendedWidth |-> 2, recommendedRatio |-> 1]

BARCODE_MAPPINGS ==
    << BarcodeMappingOf(Str_CODE128, Str_128),
       BarcodeMappingOf(Str_CODE39, Str_39),
       BarcodeMappingOf(Str_EAN13, Str_EAN13),
       BarcodeMappingOf(Str_EAN8, Str_EAN8),
       BarcodeMappingOf(Str_UPCA, Str_UPCA),
       BarcodeMappingOf(Str_UPCE, Str_UPCE),
       BarcodeMappingOf(Str_I2OF5, Str_I2OF5),
       BarcodeMappingOf(Str_CODABAR, Str_CODABAR) >>

FALLBACK_MAPPING == BarcodeMappingOf(<<>>, Str_128)

ToUpperCase(s) == [i \in 1..Len(s) |-> ToUpper(s[i])]

isBarcodeTypeSupported(uiType) ==
    \E i \in 1..Len(BARCODE_MAPPINGS) : BARCODE_MAPPINGS[i].key = ToUpperCase(uiType)

getBarcodeMapping_exactCase(uiType) ==
    LET found == { i \in 1..Len(BARCODE_MAPPINGS) : BARCODE_MAPPINGS[i].key = uiType }
    IN  IF found = {} THEN FALLBACK_MAPPING
        ELSE BARCODE_MAPPINGS[CHOOSE i \in found : TRUE]

getBarcodeMapping(uiType) ==
    LET found == { i \in 1..Len(BARCODE_MAPPINGS) :
                       BARCODE_MAPPINGS[i].key = ToUpperCase(uiType) }
    IN  IF found = {} THEN FALLBACK_MAPPING
        ELSE BARCODE_MAPPINGS[CHOOSE i \in found : TRUE]

(***************************************************************************)
(* Width estimate and left-aligned clamp                                   *)
(* (printing/cpclLayoutAdjustments.ts).                                    *)
(***************************************************************************)
Max2(a, b) == IF a >= b THEN a ELSE b
Min2(a, b) == IF a <= b THEN a ELSE b

estimateBarcodeWidthDots_shrinking(dataLength, width, ratio) ==
    LET totalModules == 11 + (20 - dataLength) * 11 + 11 + 13 + 20
    IN  (totalModules * width * (6 + ratio) + 3) \div 4

\* variant: the product rounded down
estimateBarcodeWidthDots_truncated(dataLength, width, ratio) ==
    LET totalModules == 11 + dataLength * 11 + 11 + 13 + 20
    IN  (totalModules * width * (6 + ratio)) \div 4

\* ceil((55 + 11 n) * width * (1 + (2.0 + 0.5 ratio)) / 2)
estimateBarcodeWidthDots(dataLength, width, ratio) ==
    LET totalModules == 11 + dataLength * 11 + 11 + 13 + 20
    IN  (totalModules * width * (6 + ratio) + 3) \div 4

calculateLeftAlignedBarcodeX_noMin(barcodeWidthDots, labelWidthDots, requestedX, barcodeIndex) ==
    LET minMargin == 5
        maxX == Max2(minMargin, labelWidthDots - barcodeWidthDots - minMargin)
        clampedX == Min2(maxX, requestedX)
        wasClamped == clampedX # requestedX
    IN  [originalX |-> requestedX,
         adjustedX |-> clampedX,
         barcodeIndex |-> barcodeIndex,
         wasClamped |-> wasClamped,
         logs |-> IF wasClamped
                  THEN <<LogEntry("warn", "Barcode X clamped to prevent clipping")>>
                  ELSE <<>>]

\* variant: the adjustment is never reported
calculateLeftAlignedBarcodeX_unflagged(barcodeWidthDots, labelWidthDots, requestedX, barcodeIndex) ==
    LET minMargin == 5
        minX == minMargin
        maxX == Max2(minMargin, labelWidthDots - barcodeWidthDots - minMargin)
        clampedX == Max2(minX, Min2(maxX, requestedX))
    IN  [originalX |-> requestedX,
         adjustedX |-> clampedX,
         barcodeIndex |-> barcodeIndex,
         wasClamped |-> FALSE,
         logs |-> <<>>]

calculateLeftAlignedBarcodeX(barcodeWidthDots, labelWidthDots, requestedX, barcodeIndex) ==
    LET minMargin == 5
        minX == minMargin
        maxX == Max2(minMargin, labelWidthDots - barcodeWidthDots - minMargin)
        clampedX == Max2(minX, Min2(maxX, requestedX))
        wasClamped == clampedX # requestedX
    IN  [originalX |-> requestedX,
         adjustedX |-> clampedX,
         barcodeIndex |-> barcodeIndex,
         wasClamped |-> wasClamped,
         logs |-> IF wasClamped
                  THEN <<LogEntry("warn", "Barcode X clamped to prevent clipping")>>
                  ELSE <<>>]

(***************************************************************************)
(* Label settings (state/labelSettingsStore.ts): the default 48 x 30 mm    *)
(* label and its five layouts, with the prefix rules an operator has       *)
(* configured.                                                             *)
(***************************************************************************)
createDefaultLayout(x, y, width, height, fontSize) ==
    [x |-> x, y |-> y, scale |-> Whole(1), width |-> width, height |-> height,
     fontSize |-> fontSize]

Str_SS == <<"S", "S">>
Str_TT == <<"T", "T">>
Str_miniBand == <<"m", "i", "n", "i", "B", "a", "n", "d">>
Str_MiniBandTitle == <<"M", "i", "n", "i">>
Str_DualBandTitle == <<"D", "u", "a", "l">>
Str_Label == <<"L", "a", "b", "e", "l">>

\* the configured prefix rules: (prefix, {labelType, title}) in list order;
\* one built-in label type and one custom one
ConfiguredPrefixMappings ==
    << <<Str_SS, [labelType |-> Str_dualBand, title |-> Str_DualBandTitle]>>,
       <<Str_TT, [labelType |-> Str_miniBand, title |-> Str_MiniBandTitle]>> >>

settings ==
    [widthMm |-> 48,
     heightMm |-> 30,
     barcodeType |-> Str_CODE128,
     prefixMappings |-> ConfiguredPrefixMappings,
     titleLayout |-> createDefaultLayout(2, 1, 44, 4, 10),
     barcode1Layout |-> createDefaultLayout(2, 6, 44, 8, 8),
     serialText1Layout |-> createDefaultLayout(2, 15, 44, 2, 7),
     barcode2Layout |-> createDefaultLayout(2, 18, 44, 8, 8),
     serialText2Layout |-> createDefaultLayout(2, 27, 44, 2, 7),
     calibrationOffsetXmm |-> 0,
     calibrationOffsetYmm |-> 0]

\* stored settings of an earlier version that migrateSettings keeps as they
\* are: title and first barcode layouts present, the last layout absent
settingsWithoutLayout ==
    [f \in DOMAIN settings \ {"serialText2Layout"} |-> settings[f]]

(***************************************************************************)
(* new Map(entries): a key keeps the position of its first occurrence and  *)
(* the value of its last one.                                              *)
(***************************************************************************)
MapEntries(entries) ==
    LET firsts == { i \in 1..Len(entries) :
                        \A j \in 1..(i - 1) : entries[j][1] # entries[i][1] }
        lastOf(i) == CHOOSE j \in 1..Len(entries) :
                        /\ entries[j][1] = entries[i][1]
                        /\ \A k \in (j + 1)..Len(entries) : entries[k][1] # entries[i][1]
        RECURSIVE Build(_)
        Build(i) == IF i > Len(entries) THEN <<>>
                    ELSE (IF i \in firsts
                          THEN << <<entries[i][1], entries[lastOf(i)][2]>> >>
                          ELSE <<>>) \o Build(i + 1)
    IN  Build(1)

\* ScanPrintTab.getPrefixMapping: first map entry whose key prefixes the serial;
\* found = FALSE stands for the null result
getPrefixMapping(st, serial) ==
    LET m == MapEntries(st.prefixMappings)
        hits == { i \in 1..Len(m) : StartsWith(serial, m[i][1]) }
    IN  IF hits = {}
        THEN [found |-> FALSE, prefix |-> Null, labelType |-> Null, title |-> Null]
        ELSE LET i == CHOOSE k \in hits : \A h \in hits : k <= h
             IN  [found |-> TRUE, prefix |-> m[i][1], labelType |-> m[i][2].labelType,
                  title |-> m[i][2].title]

(***************************************************************************)
(* CPCL generator (printing/cpclGenerator.ts).  A document is the sequence *)
(* of its command lines; a line keeps its command word, its numeric        *)
(* arguments and its trailing text.                                        *)
(***************************************************************************)
Line(cmd, args, text) == [cmd |-> cmd, token |-> <<>>, args |-> args, text |-> text]

\* clampScale: the rounded scale, or 1 when that is <= 0 or not finite
clampScale_unrounded(scale) ==
    IF LessOrEqualZero(scale) \/ ~isFinite(scale)
    THEN [value |-> 1, logs |-> <<LogEntry("warn", "CPCL: scale is invalid, clamping to 1")>>]
    ELSE [value |-> scale.q \div ScaleDenominator, logs |-> <<>>]

clampScale(scale) ==
    LET rounded == MathRound(scale)
    IN  IF LessOrEqualZero(rounded) \/ ~isFinite(rounded)
        THEN [value |-> 1,
              logs |-> <<LogEntry("warn", "CPCL: scale is invalid, clamping to 1")>>]
        ELSE [value |-> rounded.q \div ScaleDenominator,
              logs |-> IF rounded # scale
                       THEN <<LogEntry("info", "CPCL: scale rounded")>>
                       ELSE <<>>]

\* validateBarcodeHeight: logging only
validateBarcodeHeight(heightDots) ==
    IF heightDots <= 0
    THEN <<LogEntry("error", "Barcode computed height is invalid")>>
    ELSE IF heightDots < 30
    THEN <<LogEntry("warn", "Barcode height may be too small to scan reliably")>>
    ELSE <<LogEntry("info", "Barcode height")>>

\* variant: the computed height is used whatever it is
calculateBarcodeHeight_noFallback(heightMm, scale) ==
    LET heightDots == mmToDotsNumber(TimesWhole(heightMm, scale))
    IN  [value |-> heightDots.q \div ScaleDenominator,
         logs |-> validateBarcodeHeight(heightDots.q \div ScaleDenominator)]

calculateBarcodeHeight(heightMm, scale) ==
    LET heightDots == mmToDotsNumber(TimesWhole(heightMm, scale))
        fallbackHeight == 60
    IN  IF LessOrEqualZero(heightDots) \/ ~isFinite(heightDots)
        THEN [value |-> fallbackHeight,
              logs |-> <<LogEntry("warn", "CPCL: computed height is invalid, using fallback")>>]
        ELSE [value |-> heightDots.q \div ScaleDenominator,
              logs |-> validateBarcodeHeight(heightDots.q \div ScaleDenominator)]

\* variant: only the empty string is invalid
validateBarcodeData_blankValid(data) ==
    IF data = <<>>
    THEN [isValid |-> FALSE, warnings |-> <<>>, errors |-> <<"Empty barcode data">>,
          logs |-> <<LogEntry("error", "Barcode has empty data")>>]
    ELSE LET padded == data # Trim(data)
             control == \E i \in 1..Len(data) : data[i] \in SuffixChars
         IN  [isValid |-> TRUE,
              warnings |->
                  (IF padded THEN <<"Data contains leading/trailing whitespace">>
                   ELSE <<>>)
                  \o (IF control THEN <<"Data contains control characters (CR/LF/Tab)">>
                      ELSE <<>>),
              errors |-> <<>>,
              logs |->
                  (IF padded THEN <<LogEntry("warn", "Barcode data contains whitespace")>>
                   ELSE <<>>)
                  \o (IF control
                      THEN <<LogEntry("warn", "Barcode contains control characters")>>
                      ELSE <<>>)]

\* validateBarcodeData: the result object and the log entries written
validateBarcodeData(data) ==
    IF data = <<>> \/ Len(Trim(data)) = 0
    THEN [isValid |-> FALSE, warnings |-> <<>>, errors |-> <<"Empty barcode data">>,
          logs |-> <<LogEntry("error", "Barcode has empty data")>>]
    ELSE LET padded == data # Trim(data)
             control == \E i \in 1..Len(data) : data[i] \in SuffixChars
         IN  [isValid |-> TRUE,
              warnings |->
                  (IF padded THEN <<"Data contains leading/trailing whitespace">>
                   ELSE <<>>)
                  \o (IF control THEN <<"Data contains control characters (CR/LF/Tab)">>
                      ELSE <<>>),
              errors |-> <<>>,
              logs |->
                  (IF padded THEN <<LogEntry("warn", "Barcode data contains whitespace")>>
                   ELSE <<>>)
                  \o (IF control
                      THEN <<LogEntry("warn", "Barcode contains control characters")>>
                      ELSE <<>>)]

\* validateBarcodePosition: logging only
validateBarcodePosition(x, y, height, labelWidthDots, labelHeightDots) ==
    (IF x < 0 \/ x >= labelWidthDots
     THEN <<LogEntry("warn", "Barcode X position out of bounds")>> ELSE <<>>)
    \o (IF y < 0 \/ y >= labelHeightDots
        THEN <<LogEntry("warn", "Barcode Y position out of bounds")>> ELSE <<>>)
    \o (IF y + height > labelHeightDots
        THEN <<LogEntry("warn", "Barcode extends beyond label height")>> ELSE <<>>)

logBarcodeGeneration(wasFallback) ==
    IF wasFallback
    THEN <<LogEntry("warn", "Barcode: Using fallback type")>>
    ELSE <<LogEntry("info", "Barcode: Generated barcode")>>

\* the positions of the line breaks of a string
LineBreaks(str) == { p \in 1..Len(str) : str[p] = "\n" }

\* the pieces of a string between its line breaks
SplitAtLineBreaks(str) ==
    LET breaks == LineBreaks(str)
        at(j) == IF j = 0 THEN 0
                 ELSE IF j > Cardinality(breaks) THEN Len(str) + 1
                 ELSE CHOOSE p \in breaks : Cardinality({ q \in breaks : q <= p }) = j
    IN  [j \in 1..(Cardinality(breaks) + 1) |-> SubSeq(str, at(j - 1) + 1, at(j) - 1)]

\* lines.join('\n'), as the lines of the joined text: a line break inside a
\* line's text ends that line, and what follows it is a line without a
\* command word
RECURSIVE JoinedLines(_)
JoinedLines(v) ==
    IF v = <<>>
    THEN <<>>
    ELSE LET pieces == SplitAtLineBreaks(Head(v).text)
         IN  <<[Head(v) EXCEPT !.text = pieces[1]]>>
             \o [i \in 1..(Len(pieces) - 1) |-> Line("", <<>>, pieces[i + 1])]
             \o JoinedLines(Tail(v))

\* the array of lines is built once and then joined
join(lines) == CHOOSE text \in { JoinedLines(v) : v \in {lines} } : TRUE

\* extendedSettings.calibrationOffsetXmm ?? 0, and the same for Y
offsetXmm(st) ==
    IF "calibrationOffsetXmm" \in DOMAIN st THEN st.calibrationOffsetXmm ELSE 0
offsetYmm(st) ==
    IF "calibrationOffsetYmm" \in DOMAIN st THEN st.calibrationOffsetYmm ELSE 0

\* variant: the offsets are not applied
applyCalibrationOffset_ignored(xMm, yMm, offX, offY) == [x |-> xMm, y |-> yMm]

applyCalibrationOffset(xMm, yMm, offX, offY) == [x |-> xMm + offX, y |-> yMm + offY]

TextGroup_noReset(st, layout, font, text) ==
    LET sx == clampScale(layout.scale)
        sy == clampScale(layout.scale)
        pos == applyCalibrationOffset(layout.x, layout.y, offsetXmm(st), offsetYmm(st))
        x == mmToDots(pos.x)
        y == mmToDots(pos.y)
    IN  [lines |-> << Line("SETMAG", <<sx.value, sy.value>>, <<>>),
                      Line("TEXT", <<font, 0, x, y>>, text),
                      Line("SETMAG", <<sx.value, sy.value>>, <<>>) >>,
         logs |-> sx.logs \o sy.logs]

\* one SETMAG / TEXT / SETMAG 1 1 group
TextGroup(st, layout, font, text) ==
    LET sx == clampScale(layout.scale)
        sy == clampScale(layout.scale)
        pos == applyCalibrationOffset(layout.x, layout.y, offsetXmm(st), offsetYmm(st))
        x == mmToDots(pos.x)
        y == mmToDots(pos.y)
    IN  [lines |-> << Line("SETMAG", <<sx.value, sy.value>>, <<>>),
                      Line("TEXT", <<font, 0, x, y>>, text),
                      Line("SETMAG", <<1, 1>>, <<>>) >>,
         logs |-> sx.logs \o sy.logs]

\* one BARCODE line with its height, width estimate and clamp
BarcodeGroup(st, layout, data, barcodeIndex) ==
    LET bm == getBarcodeMapping(st.barcodeType)
        wasFallback == ~isBarcodeTypeSupported(st.barcodeType)
        widthDots == mmToDots(st.widthMm)
        heightDots == mmToDots(st.heightMm)
        h == calculateBarcodeHeight(layout.height, layout.scale)
        est == estimateBarcodeWidthDots(Len(data), bm.recommendedWidth, bm.recommendedRatio)
        pos == applyCalibrationOffset(layout.x, layout.y, offsetXmm(st), offsetYmm(st))
        adj == calculateLeftAlignedBarcodeX(est, widthDots, mmToDots(pos.x), barcodeIndex)
        y == mmToDots(pos.y)
    IN  [lines |-> << [cmd |-> "BARCODE",
                       token |-> bm.cpclToken,
                       args |-> <<bm.recommendedWidth, bm.recommendedRatio,
                                  h.value, adj.adjustedX, y>>,
                       text |-> data] >>,
         logs |-> h.logs \o adj.logs
                  \o validateBarcodePosition(adj.adjustedX, y, h.value, widthDots, heightDots)
                  \o logBarcodeGeneration(wasFallback)]

\* generateCPCL: the document and the log entries written while generating
generateCPCL(st, leftSerial, rightSerial, prefix) ==
    LET m == MapEntries(st.prefixMappings)
        mapped == { i \in 1..Len(m) : m[i][1] = prefix }
        title == IF mapped = {} THEN Str_Label
                 ELSE LET t == m[CHOOSE i \in mapped : TRUE][2].title
                      IN  IF t = <<>> THEN Str_Label ELSE t
        wasFallback == ~isBarcodeTypeSupported(st.barcodeType)
        g1 == TextGroup(st, st.titleLayout, 4, title)
        g2 == BarcodeGroup(st, st.barcode1Layout, leftSerial, 1)
        g3 == TextGroup(st, st.serialText1Layout, 7, leftSerial)
        g4 == BarcodeGroup(st, st.barcode2Layout, rightSerial, 2)
        g5 == TextGroup(st, st.serialText2Layout, 7, rightSerial)
    IN  [text |-> join(<< Line("!", <<0, 200, 200, mmToDots(st.heightMm), 1>>, <<>>),
                          Line("PAGE-WIDTH", <<mmToDots(st.widthMm)>>, <<>>) >>
                       \o g1.lines \o g2.lines \o g3.lines \o g4.lines \o g5.lines
                       \o << Line("PRINT", <<>>, <<>>) >>),
         logs |-> (IF wasFallback
                   THEN <<LogEntry("warn", "Barcode type not supported, using fallback")>>
                   ELSE <<>>)
                  \o validateBarcodeData(leftSerial).logs
                  \o validateBarcodeData(rightSerial).logs
                  \o g1.logs \o g2.logs \o g3.logs \o g4.logs \o g5.logs]

\* the layouts generateCPCL reads a property of
LayoutFields ==
    {"titleLayout", "barcode1Layout", "serialText1Layout", "barcode2Layout",
     "serialText2Layout"}

\* generateCPCL raises a TypeError when it reads x of a layout that the
\* settings object does not have
generateCPCLThrows(st) == ~(LayoutFields \subseteq DOMAIN st)

\* the message of that TypeError
Err_CannotReadProperties ==
    <<"C", "a", "n", "n", "o", "t", " ", "r", "e", "a", "d", " ", "p", "r", "o", "p",
      "e", "r", "t", "i", "e", "s", " ", "o", "f", " ", "u", "n", "d", "e", "f", "i",
      "n", "e", "d">>

\* generateCPCLWithTitle: the same generator with the title given by the caller
generateCPCLWithTitle_labelled(st, leftSerial, rightSerial, title) ==
    generateCPCL([st EXCEPT !.prefixMappings = <<>>], leftSerial, rightSerial, <<>>)

generateCPCLWithTitle(st, leftSerial, rightSerial, title) ==
    LET wasFallback == ~isBarcodeTypeSupported(st.barcodeType)
        g1 == TextGroup(st, st.titleLayout, 4, title)
        g2 == BarcodeGroup(st, st.barcode1Layout, leftSerial, 1)
        g3 == TextGroup(st, st.serialText1Layout, 7, leftSerial)
        g4 == BarcodeGroup(st, st.barcode2Layout, rightSerial, 2)
        g5 == TextGroup(st, st.serialText2Layout, 7, rightSerial)
    IN  [text |-> join(<< Line("!", <<0, 200, 200, mmToDots(st.heightMm), 1>>, <<>>),
                          Line("PAGE-WIDTH", <<mmToDots(st.widthMm)>>, <<>>) >>
                       \o g1.lines \o g2.lines \o g3.lines \o g4.lines \o g5.lines
                       \o << Line("PRINT", <<>>, <<>>) >>),
         logs |-> (IF wasFallback
                   THEN <<LogEntry("warn", "Barcode type not supported, using fallback")>>
                   ELSE <<>>)
                  \o validateBarcodeData(leftSerial).logs
                  \o validateBarcodeData(rightSerial).logs
                  \o g1.logs \o g2.logs \o g3.logs \o g4.logs \o g5.logs]

(***************************************************************************)
(* Messages: the user-facing strings of ScanPrintTab.tsx and               *)
(* formatPrinterError, and the error texts of the printer service and the  *)
(* USB transport.                                                          *)
(***************************************************************************)
Msg_UnknownPrefix ==
    <<"U", "n", "k", "n", "o", "w", "n", " ", "p", "r", "e", "f", "i", "x">>
Msg_PrinterNotConnected ==
    <<"P", "r", "i", "n", "t", "e", "r", " ", "n", "o", "t", " ", "c", "o", "n",
      "n", "e", "c", "t", "e", "d">>
Msg_MismatchExpected ==
    <<"L", "a", "b", "e", "l", " ", "t", "y", "p", "e", " ", "m", "i", "s", "m",
      "a", "t", "c", "h", ":", " ", "e", "x", "p", "e", "c", "t", "e", "d", " ">>
Msg_MismatchGot ==
    <<",", " ", "g", "o", "t", " ">>
Msg_PrinterErrorOccurred ==
    <<"P", "r", "i", "n", "t", "e", "r", " ", "e", "r", "r", "o", "r", " ", "o",
      "c", "c", "u", "r", "r", "e", "d">>
Msg_UsbCommunicationError ==
    <<"U", "S", "B", " ", "c", "o", "m", "m", "u", "n", "i", "c", "a", "t", "i",
      "o", "n", " ", "e", "r", "r", "o", "r">>
Msg_BluetoothCommunicationError ==
    <<"B", "l", "u", "e", "t", "o", "o", "t", "h", " ", "c", "o", "m", "m", "u",
      "n", "i", "c", "a", "t", "i", "o", "n", " ", "e", "r", "r", "o", "r">>
Msg_FailedToSendToPrinter ==
    <<"F", "a", "i", "l", "e", "d", " ", "t", "o", " ", "s", "e", "n", "d", " ",
      "t", "o", " ", "p", "r", "i", "n", "t", "e", "r">>
Str_notConnected ==
    <<"n", "o", "t", " ", "c", "o", "n", "n", "e", "c", "t", "e", "d">>
Str_disconnected ==
    <<"d", "i", "s", "c", "o", "n", "n", "e", "c", "t", "e", "d">>
Str_USB ==
    <<"U", "S", "B">>
Str_WebUSB ==
    <<"W", "e", "b", "U", "S", "B">>
Str_Bluetooth ==
    <<"B", "l", "u", "e", "t", "o", "o", "t", "h">>
Str_Error ==
    <<"E", "r", "r", "o", "r">>
Err_NoValidPrinterConnection ==
    <<"N", "o", " ", "v", "a", "l", "i", "d", " ", "p", "r", "i", "n", "t", "e",
      "r", " ", "c", "o", "n", "n", "e", "c", "t", "i", "o", "n">>
Err_FailedToSendData ==
    <<"F", "a", "i", "l", "e", "d", " ", "t", "o", " ", "s", "e", "n", "d", " ",
      "d", "a", "t", "a", " ", "t", "o", " ", "p", "r", "i", "n", "t", "e", "r",
      ":", " ">>
Err_UsbTransferFailedStatus ==
    <<"U", "S", "B", " ", "t", "r", "a", "n", "s", "f", "e", "r", " ", "f", "a",
      "i", "l", "e", "d", " ", "w", "i", "t", "h", " ", "s", "t", "a", "t", "u",
      "s", ":", " ">>
Err_DeviceDisconnected ==
    <<"T", "h", "e", " ", "d", "e", "v", "i", "c", "e", " ", "w", "a", "s", " ",
      "d", "i", "s", "c", "o", "n", "n", "e", "c", "t", "e", "d", ".">>
Err_TransferError ==
    <<"A", " ", "t", "r", "a", "n", "s", "f", "e", "r", " ", "e", "r", "r", "o",
      "r", " ", "h", "a", "s", " ", "o", "c", "c", "u", "r", "r", "e", "d", ".">>
Str_stall ==
    <<"s", "t", "a", "l", "l">>
Str_babble ==
    <<"b", "a", "b", "b", "l", "e">>

\* a rejection value: an Error object with a message, or no value at all
ErrorOf(message) == [present |-> TRUE, message |-> message]
NoErrorValue == [present |-> FALSE, message |-> <<>>]

\* variant: the raw error message
formatPrinterError_raw(error) == error.message

\* formatPrinterError (scanPrintErrors)
formatPrinterError(error) ==
    IF ~error.present THEN Msg_PrinterErrorOccurred
    ELSE LET errorMessage == IF error.message # <<>> THEN error.message ELSE Str_Error
         IN  IF Includes(errorMessage, Str_notConnected)
                  \/ Includes(errorMessage, Str_disconnected)
             THEN Msg_PrinterNotConnected
             ELSE IF Includes(errorMessage, Str_USB) \/ Includes(errorMessage, Str_WebUSB)
             THEN Msg_UsbCommunicationError
             ELSE IF Includes(errorMessage, Str_Bluetooth)
             THEN Msg_BluetoothCommunicationError
             ELSE Msg_FailedToSendToPrinter

(***************************************************************************)
(* Remote submission errors (utils/icErrors.ts).                           *)
(***************************************************************************)
Err_ActorNotAvailable ==
    <<"A", "c", "t", "o", "r", " ", "n", "o", "t", " ", "a", "v", "a", "i", "l",
      "a", "b", "l", "e">>
Err_CanisterStopped ==
    <<"C", "a", "n", "i", "s", "t", "e", "r", " ", "i", "s", " ", "s", "t", "o",
      "p", "p", "e", "d">>
Err_DuplicateSerial ==
    <<"D", "u", "p", "l", "i", "c", "a", "t", "e", " ", "s", "e", "r", "i", "a",
      "l", ":", " ", "l", "e", "f", "t", "S", "e", "r", "i", "a", "l", " ", "a",
      "l", "r", "e", "a", "d", "y", " ", "u", "s", "e", "d">>
Err_FailedToFetch ==
    <<"F", "a", "i", "l", "e", "d", " ", "t", "o", " ", "f", "e", "t", "c", "h">>
Str_IC0508 ==
    <<"I", "C", "0", "5", "0", "8">>
Str_IC0503 ==
    <<"I", "C", "0", "5", "0", "3">>
Str_canisterIsStopped ==
    <<"c", "a", "n", "i", "s", "t", "e", "r", " ", "i", "s", " ", "s", "t", "o",
      "p", "p", "e", "d">>
Str_Canister ==
    <<"C", "a", "n", "i", "s", "t", "e", "r">>
Str_isStopped ==
    <<"i", "s", " ", "s", "t", "o", "p", "p", "e", "d">>
Msg_CanisterStopped ==
    <<"B", "a", "c", "k", "e", "n", "d", " ", "u", "n", "a", "v", "a", "i", "l",
      "a", "b", "l", "e", ".", " ", "P", "r", "i", "n", "t", "i", "n", "g", " ",
      "c", "o", "n", "t", "i", "n", "u", "e", "s", " ", "l", "o", "c", "a", "l",
      "l", "y", " ", "w", "i", "t", "h", " ", "c", "o", "n", "n", "e", "c", "t",
      "e", "d", " ", "p", "r", "i", "n", "t", "e", "r", ".">>

\* a rejection of the remote call: message, reject_code (0 when absent),
\* error_code and reject_message ('' when absent)
IcError(message, rejectCode, errorCode, rejectMessage) ==
    [present |-> TRUE, message |-> message, reject_code |-> rejectCode,
     error_code |-> errorCode, reject_message |-> rejectMessage]

isCanisterStoppedError(error) ==
    IF ~error.present THEN FALSE
    ELSE LET errorMessage == IF error.message # <<>> THEN error.message ELSE Str_Error
         IN  \/ error.error_code = Str_IC0508
             \/ error.reject_code = 5
             \/ Includes(errorMessage, Str_canisterIsStopped)
             \/ (Includes(errorMessage, Str_Canister) /\ Includes(errorMessage, Str_isStopped))
             \/ Includes(error.reject_message, Str_canisterIsStopped)
             \/ (Includes(error.reject_message, Str_Canister)
                 /\ Includes(error.reject_message, Str_isStopped))

\* isNonBlockingBackendError (scanPrintErrors)
isNonBlockingBackendError(error) == isCanisterStoppedError(error)

\* rejections the remote submission is exercised with
SubmitErrors ==
    { IcError(Err_ActorNotAvailable, 0, <<>>, <<>>),
      IcError(Err_CanisterStopped, 5, Str_IC0508, Err_CanisterStopped),
      IcError(Err_DuplicateSerial, 5, Str_IC0503, Err_DuplicateSerial),
      IcError(Err_FailedToFetch, 0, <<>>, <<>>) }

(***************************************************************************)
(* The scan tab, its timers, and the stores it writes.                     *)
(***************************************************************************)
VARIABLES
    \* React state of ScanPrintTab
    leftSerial, rightSerial, detectedType, detectedPrefix,
    leftValidation, rightValidation, errorMessage, backendNotice, step, isPrinting,
    \* refs and pending timers
    lastCompletedLeft, lastCompletedRight, timers, stepTimers,
    \* printer service store and the USB transfers in flight
    printerConnected, sends,
    \* remote submissions in flight and the backend-availability store
    submits, backendAvailability,
    \* diagnostics, history, log and sound collaborators
    totalScans, labelsPrinted, errors, typeCounters, history, logs, sounds,
    \* whether the scan tab instance is mounted
    mounted,
    \* printer service store: its connection method and its USB device; the
    \* calls made on the device and the service call that settled last
    connectionMethod, usbDevice, deviceLog, serviceCall,
    \* backend actor: print jobs by id, used serials, the next id, the label
    \* settings of each caller, and the reply to the last call
    printHistory, usedSerials, currentId, labelSettings, reply,
    \* the last call of a pure function: its name, arguments and result
    calc

sessionVars == <<leftSerial, rightSerial, detectedType, detectedPrefix,
                 leftValidation, rightValidation, errorMessage, backendNotice,
                 step, isPrinting>>
refVars == <<lastCompletedLeft, lastCompletedRight, timers, stepTimers>>
counterVars == <<totalScans, labelsPrinted, errors, typeCounters>>
serviceVars == <<connectionMethod, usbDevice, deviceLog, serviceCall>>
ledgerVars == <<printHistory, usedSerials, currentId, labelSettings, reply>>
envVars == <<mounted, calc, serviceVars, ledgerVars>>
vars == <<sessionVars, refVars, printerConnected, sends, submits, backendAvailability,
          counterVars, history, logs, sounds, envVars>>

\* values the scanner or keyboard puts into a field
In_SS1 == <<"S", "S", "1">>
In_TT1 == <<"T", "T", "1">>
In_XY1 == <<"X", "Y", "1">>
In_SS2suffix == <<"S", "S", "2", " ">>
In_TT1tab == <<"T", "T", "1", "\t">>

\* what the first field receives: a plain serial, one with the scanner's
\* trailing tab, one that no prefix rule matches
LeftInputs == {In_SS1, In_TT1tab, In_XY1}

\* what the second field receives: two serials of one type, one of them with
\* trailing blank, one of the other type, one that no prefix rule matches
RightInputs == {In_SS1, In_SS2suffix, In_TT1, In_XY1}

\* results a USB transferOut can settle with: a status with the bytes
\* written (all or fewer), or a rejection with the browser's message
UsbOk == [settled |-> "result", status |-> <<"o", "k">>, complete |-> TRUE, message |-> <<>>]
UsbShort == [settled |-> "result", status |-> <<"o", "k">>, complete |-> FALSE, message |-> <<>>]
UsbStall == [settled |-> "result", status |-> Str_stall, complete |-> FALSE, message |-> <<>>]
UsbGone == [settled |-> "rejected", status |-> <<>>, complete |-> FALSE,
            message |-> Err_DeviceDisconnected]
UsbFault == [settled |-> "rejected", status |-> <<>>, complete |-> FALSE,
             message |-> Err_TransferError]
UsbResults == {UsbOk, UsbShort, UsbStall, UsbGone, UsbFault}

\* sendCPCLToUSB after transferOut has settled: whether the send resolves,
\* the error it rejects with, and what it logs
sendCPCLToUSB(result) ==
    LET inner == IF result.settled = "rejected" THEN result.message
                 ELSE Err_UsbTransferFailedStatus \o result.status
    IN  IF result.settled = "result" /\ result.status = <<"o", "k">>
        THEN [resolved |-> TRUE, error |-> NoErrorValue,
              logs |-> IF result.complete
                       THEN <<LogEntry("info", "USB transfer completed successfully")>>
                       ELSE <<LogEntry("warn", "USB transfer incomplete")>>]
        ELSE [resolved |-> FALSE, error |-> ErrorOf(Err_FailedToSendData \o inner),
              logs |-> <<LogEntry("error", "USB transfer error")>>]

\* what a debounce callback closes over: the values of the render in which
\* the change event was handled
CurrentClosure ==
    [isPrinting |-> isPrinting, detectedPrefix |-> detectedPrefix,
     detectedType |-> detectedType, leftSerial |-> leftSerial,
     isConnected |-> printerConnected]

\* validateAndProcessLeftSerial reads no component state
NoClosure ==
    [isPrinting |-> FALSE, detectedPrefix |-> Null, detectedType |-> Null,
     leftSerial |-> <<>>, isConnected |-> FALSE]

\* variant: a handler that leaves the pending callback in place
clearPendingTimer_keep(tm) == tm

\* clearTimeout(scanCompleteTimerRef.current)
clearPendingTimer(tm) == { t \in tm : ~t.isRef }

\* variant: the id of the new timer is not kept in the ref
setDebounceTimer_untracked(tm, kind, value, cl) ==
    tm \cup { [kind |-> kind, value |-> value, cl |-> cl, isRef |-> FALSE] }

\* scanCompleteTimerRef.current = setTimeout(callback, 150)
setDebounceTimer(tm, kind, value, cl) ==
    { [t EXCEPT !.isRef = FALSE] : t \in tm }
        \cup { [kind |-> kind, value |-> value, cl |-> cl, isRef |-> TRUE] }

\* variant: a Clear button that is never disabled
ClearDisabled_never == FALSE

\* the disabled attributes of the two inputs and of the Clear button
LeftDisabled == step = 2 \/ isPrinting
RightDisabled == step = 1 \/ isPrinting
ClearDisabled == isPrinting

\* diagnosticsStore: key `${prefix}:${labelType}`
TypeKey(prefix, labelType) == prefix \o <<":">> \o labelType

TypeCounterOf(tc, prefix, labelType) ==
    IF TypeKey(prefix, labelType) \in DOMAIN tc
    THEN tc[TypeKey(prefix, labelType)]
    ELSE [prefix |-> prefix, labelType |-> labelType, scans |-> 0, prints |-> 0]

\* variant: the scan is counted under the label type alone
incrementTypeScans_byType(tc, prefix, labelType) ==
    LET existing == TypeCounterOf(tc, <<>>, labelType)
    IN  [k \in DOMAIN tc \cup {TypeKey(<<>>, labelType)} |->
            IF k = TypeKey(<<>>, labelType)
            THEN [existing EXCEPT !.scans = existing.scans + 1]
            ELSE tc[k]]

incrementTypeScans(tc, prefix, labelType) ==
    LET existing == TypeCounterOf(tc, prefix, labelType)
    IN  [k \in DOMAIN tc \cup {TypeKey(prefix, labelType)} |->
            IF k = TypeKey(prefix, labelType)
            THEN [existing EXCEPT !.scans = existing.scans + 1]
            ELSE tc[k]]

\* variant: the entry of the key is written anew, without the spread of the
\* existing one
incrementTypePrints_anew(tc, prefix, labelType) ==
    [k \in DOMAIN tc \cup {TypeKey(prefix, labelType)} |->
        IF k = TypeKey(prefix, labelType)
        THEN [prefix |-> prefix, labelType |-> labelType, scans |-> 0, prints |-> 1]
        ELSE tc[k]]

incrementTypePrints(tc, prefix, labelType) ==
    LET existing == TypeCounterOf(tc, prefix, labelType)
    IN  [k \in DOMAIN tc \cup {TypeKey(prefix, labelType)} |->
            IF k = TypeKey(prefix, labelType)
            THEN [existing EXCEPT !.prints = existing.prints + 1]
            ELSE tc[k]]

\* soundSystem.playSound
playSound(snd, kind) == [snd EXCEPT ![kind] = snd[kind] + 1]

\* the model stays within its bounds
WithinBounds ==
    /\ totalScans' + errors' <= MaxOutcomes

\* ConnectionMethod 'usb', and the device requestUSBPrinter returns
Str_usb == <<"u", "s", "b">>
UsbPrinter == <<"<USBPrinterDevice>">>

\* no call of the printer service has settled
NoServiceCall == [fn |-> "", settled |-> "", error |-> NoErrorValue]

\* Map.empty of printHistory and of labelSettings; no call has been answered
NoJobs == [id \in {} |-> 0]
NoSettings == [caller \in {} |-> 0]
NoReply == [fn |-> "", trap |-> <<>>]

\* no pure function has been called
NoCall == [fn |-> "", args |-> <<>>, result |-> <<>>]

Init ==
    /\ leftSerial = <<>>
    /\ rightSerial = <<>>
    /\ detectedType = Null
    /\ detectedPrefix = Null
    /\ leftValidation = "idle"
    /\ rightValidation = "idle"
    /\ errorMessage = <<>>
    /\ backendNotice = <<>>
    /\ step = 1
    /\ isPrinting = FALSE
    /\ lastCompletedLeft = <<>>
    /\ lastCompletedRight = <<>>
    /\ timers = {}
    /\ stepTimers = 0
    /\ printerConnected \in BOOLEAN
    /\ sends = <<>>
    /\ submits = <<>>
    /\ backendAvailability = [isAvailable |-> TRUE, lastError |-> Null]
    /\ totalScans = 0
    /\ labelsPrinted = 0
    /\ errors = 0
    /\ typeCounters = [k \in {} |-> 0]
    /\ history = <<>>
    /\ logs = <<>>
    /\ sounds = [success |-> 0, error |-> 0, printComplete |-> 0]
    /\ mounted = TRUE
    /\ calc = NoCall
    /\ connectionMethod = (IF printerConnected THEN Str_usb ELSE Null)
    /\ usbDevice = (IF printerConnected THEN UsbPrinter ELSE Null)
    /\ deviceLog = <<>>
    /\ serviceCall = NoServiceCall
    /\ printHistory = NoJobs
    /\ usedSerials = {}
    /\ currentId = 0
    /\ labelSettings = NoSettings
    /\ reply = NoReply

(***************************************************************************)
(* validateAndProcessLeftSerial(value), run with the pending timers tm     *)
(* the calling handler leaves behind.                                      *)
(***************************************************************************)
validateAndProcessLeftSerial(value, tm) ==
    LET normalized == normalizeSerial(value)
        mapping == getPrefixMapping(settings, normalized)
    IN  /\ timers' = tm
        /\ UNCHANGED <<rightSerial, rightValidation, backendNotice, step, isPrinting,
                       lastCompletedRight, printerConnected, sends, submits,
                       backendAvailability, labelsPrinted, history>>
        /\ IF normalized = lastCompletedLeft \/ Len(normalized) < 3
           THEN UNCHANGED <<leftSerial, detectedType, detectedPrefix, leftValidation,
                            errorMessage, lastCompletedLeft, stepTimers, totalScans,
                            errors, typeCounters, logs, sounds>>
           ELSE /\ lastCompletedLeft' = normalized
                /\ leftSerial' = IF normalized # value THEN normalized ELSE leftSerial
                /\ IF ~mapping.found
                   THEN /\ leftValidation' = "error"
                        /\ errorMessage' = Msg_UnknownPrefix
                        /\ sounds' = playSound(sounds, "error")
                        /\ logs' = AddLogs(logs, <<LogEntry("error", "Unknown prefix in serial")>>)
                        /\ errors' = errors + 1
                        /\ UNCHANGED <<detectedType, detectedPrefix, stepTimers,
                                       totalScans, typeCounters>>
                   ELSE /\ detectedType' = mapping.labelType
                        /\ detectedPrefix' = mapping.prefix
                        /\ leftValidation' = "success"
                        /\ sounds' = playSound(sounds, "success")
                        /\ logs' = AddLogs(logs, <<LogEntry("info", "Detected label type")>>)
                        /\ totalScans' = totalScans + 1
                        /\ typeCounters' =
                               incrementTypeScans(typeCounters, mapping.prefix, mapping.labelType)
                        /\ stepTimers' = stepTimers + 1
                        /\ UNCHANGED <<errorMessage, errors>>

(***************************************************************************)
(* resetForm, applied to the pending timers tm.                            *)
(***************************************************************************)
\* variant: a reset that leaves the lock flag as it is
resetForm_staysLocked(tm) ==
    /\ timers' = clearPendingTimer(tm)
    /\ lastCompletedLeft' = <<>>
    /\ lastCompletedRight' = <<>>
    /\ leftSerial' = <<>>
    /\ rightSerial' = <<>>
    /\ detectedType' = Null
    /\ detectedPrefix' = Null
    /\ leftValidation' = "idle"
    /\ rightValidation' = "idle"
    /\ errorMessage' = <<>>
    /\ backendNotice' = <<>>
    /\ step' = 1
    /\ isPrinting' = isPrinting

resetForm(tm) ==
    /\ timers' = clearPendingTimer(tm)
    /\ lastCompletedLeft' = <<>>
    /\ lastCompletedRight' = <<>>
    /\ leftSerial' = <<>>
    /\ rightSerial' = <<>>
    /\ detectedType' = Null
    /\ detectedPrefix' = Null
    /\ leftValidation' = "idle"
    /\ rightValidation' = "idle"
    /\ errorMessage' = <<>>
    /\ backendNotice' = <<>>
    /\ step' = 1
    /\ isPrinting' = FALSE

\* what the continuation of a print attempt keeps across the await
PrintAttempt(cpcl, prefix, labelType, left, right) ==
    [cpcl |-> cpcl, prefix |-> prefix, labelType |-> labelType,
     leftSerial |-> left, rightSerial |-> right]

\* variant: a catch block that does not release the lock flag
printerFailure_staysLocked(error, snd, lg, errs) ==
    /\ rightValidation' = "error"
    /\ errorMessage' = formatPrinterError(error)
    /\ sounds' = playSound(snd, "error")
    /\ logs' = AddLogs(lg, <<LogEntry("error", "Print failed")>>)
    /\ errors' = errs + 1
    /\ isPrinting' = isPrinting

\* the catch block of validateAndProcessRightSerial
printerFailure(error, snd, lg, errs) ==
    /\ rightValidation' = "error"
    /\ errorMessage' = formatPrinterError(error)
    /\ sounds' = playSound(snd, "error")
    /\ logs' = AddLogs(lg, <<LogEntry("error", "Print failed")>>)
    /\ errors' = errs + 1
    /\ isPrinting' = FALSE

\* the early return of validateAndProcessRightSerial on the lock flag
PrintingLock(cl) == cl.isPrinting

\* the duplicate-scan guard of validateAndProcessRightSerial
\* variant: no duplicate-scan guard
IsDuplicateRight_never(normalized) == FALSE
IsDuplicateRight(normalized) == normalized = lastCompletedRight

\* a validation error of the second field: state, message, sound, log, counter
rightFieldError(message, logMsg) ==
    /\ rightValidation' = "error"
    /\ errorMessage' = message
    /\ sounds' = playSound(sounds, "error")
    /\ logs' = AddLogs(logs, <<LogEntry("error", logMsg)>>)
    /\ errors' = errors + 1
    /\ UNCHANGED <<backendNotice, isPrinting, sends, totalScans, typeCounters>>

(***************************************************************************)
(* validateAndProcessRightSerial(value) up to its await, run with the      *)
(* closure cl of the render that created the callback.  A send that the    *)
(* printer service refuses at once (store not connected) rejects in the    *)
(* same turn, so the catch block is part of this step; so is it when       *)
(* generateCPCL throws.  st is the settings object of that render.         *)
(***************************************************************************)
validateAndProcessRightSerialWith(st, value, cl, tm) ==
    LET normalized == normalizeSerial(value)
        mapping == getPrefixMapping(st, normalized)
        normalizedLeft == normalizeSerial(cl.leftSerial)
        gen == generateCPCL(st, normalizedLeft, normalized, cl.detectedPrefix)
        scanned == incrementTypeScans(typeCounters, cl.detectedPrefix, cl.detectedType)
    IN  /\ timers' = tm
        /\ UNCHANGED <<leftSerial, detectedType, detectedPrefix, leftValidation, step,
                       lastCompletedLeft, stepTimers, printerConnected, submits,
                       backendAvailability, labelsPrinted, history>>
        /\ IF \/ PrintingLock(cl)
              \/ IsDuplicateRight(normalized)
              \/ Len(normalized) < 3
              \/ Falsy(cl.detectedPrefix)
              \/ Falsy(cl.detectedType)
           THEN UNCHANGED <<rightSerial, rightValidation, errorMessage, backendNotice,
                            isPrinting, lastCompletedRight, sends, totalScans, errors,
                            typeCounters, logs, sounds>>
           ELSE /\ lastCompletedRight' = normalized
                /\ rightSerial' = IF normalized # value THEN normalized ELSE rightSerial
                /\ IF ~mapping.found
                   THEN rightFieldError(Msg_UnknownPrefix, "Unknown prefix in serial")
                   ELSE IF mapping.labelType # cl.detectedType
                   THEN rightFieldError(
                            Msg_MismatchExpected \o getLabelTypeDisplayName(cl.detectedType)
                                \o Msg_MismatchGot \o getLabelTypeDisplayName(mapping.labelType),
                            "Label type mismatch")
                   ELSE IF ~cl.isConnected
                   THEN rightFieldError(Msg_PrinterNotConnected,
                                        "Print failed: printer not connected")
                   ELSE /\ totalScans' = totalScans + 1
                        /\ typeCounters' = scanned
                        /\ backendNotice' = <<>>
                        /\ IF generateCPCLThrows(st)
                           THEN /\ printerFailure(ErrorOf(Err_CannotReadProperties),
                                                  playSound(sounds, "success"), logs, errors)
                                /\ UNCHANGED sends
                           ELSE IF printerConnected
                           THEN /\ rightValidation' = "success"
                                /\ sounds' = playSound(sounds, "success")
                                /\ isPrinting' = TRUE
                                /\ errorMessage' = <<>>
                                /\ sends' = Append(sends,
                                       PrintAttempt(gen.text, cl.detectedPrefix,
                                                    cl.detectedType, normalizedLeft, normalized))
                                /\ logs' = AddLogs(logs, gen.logs
                                       \o <<LogEntry("info", "Sending bytes to USB printer")>>)
                                /\ UNCHANGED errors
                           ELSE /\ printerFailure(ErrorOf(Msg_PrinterNotConnected),
                                                  playSound(sounds, "success"),
                                                  AddLogs(logs, gen.logs), errors)
                                /\ UNCHANGED sends

\* the callback of a render whose settings are the stored ones
validateAndProcessRightSerial(value, cl, tm) ==
    validateAndProcessRightSerialWith(settings, value, cl, tm)

(***************************************************************************)
(* Event handlers.  An input event reaches a handler only while its        *)
(* element is not disabled; the handler runs with the current render.      *)
(***************************************************************************)
handleLeftSerialChange(value) ==
    /\ mounted
    /\ UNCHANGED envVars
    /\ ~LeftDisabled
    /\ ~PrintingLock(CurrentClosure)
    /\ leftSerial' = value
    /\ errorMessage' = <<>>
    /\ backendNotice' = <<>>
    /\ timers' = setDebounceTimer(clearPendingTimer(timers), "left", value, NoClosure)
    /\ UNCHANGED <<rightSerial, detectedType, detectedPrefix, leftValidation,
                   rightValidation, step, isPrinting, lastCompletedLeft,
                   lastCompletedRight, stepTimers, printerConnected, sends, submits,
                   backendAvailability, counterVars, history, logs, sounds>>

\* Enter or Tab in the first field; the input's current value is its state
handleLeftSerialKeyDown ==
    /\ mounted
    /\ UNCHANGED envVars
    /\ ~LeftDisabled
    /\ ~PrintingLock(CurrentClosure)
    /\ validateAndProcessLeftSerial(leftSerial, clearPendingTimer(timers))
    /\ WithinBounds

handleRightSerialChange(value) ==
    /\ mounted
    /\ UNCHANGED envVars
    /\ ~RightDisabled
    /\ ~PrintingLock(CurrentClosure)
    /\ rightSerial' = value
    /\ errorMessage' = <<>>
    /\ backendNotice' = <<>>
    /\ timers' = setDebounceTimer(clearPendingTimer(timers), "right", value, CurrentClosure)
    /\ UNCHANGED <<leftSerial, detectedType, detectedPrefix, leftValidation,
                   rightValidation, step, isPrinting, lastCompletedLeft,
                   lastCompletedRight, stepTimers, printerConnected, sends, submits,
                   backendAvailability, counterVars, history, logs, sounds>>

\* Enter or Tab in the second field
handleRightSerialKeyDown ==
    /\ mounted
    /\ UNCHANGED envVars
    /\ ~RightDisabled
    /\ ~PrintingLock(CurrentClosure)
    /\ validateAndProcessRightSerial(rightSerial, CurrentClosure, clearPendingTimer(timers))
    /\ WithinBounds

\* a pending 150 ms debounce callback runs
DebounceTimerFires(t) ==
    /\ UNCHANGED envVars
    /\ t \in timers
    /\ IF t.kind = "left"
       THEN validateAndProcessLeftSerial(t.value, timers \ {t})
       ELSE validateAndProcessRightSerial(t.value, t.cl, timers \ {t})
    /\ WithinBounds

\* a pending 100 ms callback of validateAndProcessLeftSerial runs: setStep(2)
StepTimerFires ==
    /\ UNCHANGED envVars
    /\ stepTimers > 0
    /\ stepTimers' = stepTimers - 1
    /\ step' = 2
    /\ UNCHANGED <<leftSerial, rightSerial, detectedType, detectedPrefix, leftValidation,
                   rightValidation, errorMessage, backendNotice, isPrinting,
                   lastCompletedLeft, lastCompletedRight, timers, printerConnected,
                   sends, submits, backendAvailability, counterVars, history, logs, sounds>>

\* the Clear button
ClearClicked ==
    /\ mounted
    /\ UNCHANGED envVars
    /\ ~ClearDisabled
    /\ resetForm(timers)
    /\ UNCHANGED <<stepTimers, printerConnected, sends, submits, backendAvailability,
                   counterVars, history, logs, sounds>>

\* variant: an entry with the two serials exchanged
addPrintHistory_swapped(h, a) ==
    << [prefix |-> a.prefix, leftSerial |-> a.rightSerial, rightSerial |-> a.leftSerial,
        labelType |-> a.labelType, cpcl |-> a.cpcl, success |-> TRUE] >> \o h

\* printHistoryStore.addEntry: newest first (the timestamp is left out)
addPrintHistory(h, a) ==
    << [prefix |-> a.prefix, leftSerial |-> a.leftSerial, rightSerial |-> a.rightSerial,
        labelType |-> a.labelType, cpcl |-> a.cpcl, success |-> TRUE] >> \o h

\* the arguments of submitPrintJob.mutateAsync
SubmitArgs(a) == [prefix |-> a.prefix, leftSerial |-> a.leftSerial,
                  rightSerial |-> a.rightSerial]

\* variant: a print flow without the remote submission
startSubmission_none(q, a) == q

\* step 5 of the print flow: the fire-and-forget remote submission
startSubmission(q, a) == Append(q, SubmitArgs(a))

\* the USB transfer of a send in flight settles with a result the send
\* resolves on: steps 3 to 5 of validateAndProcessRightSerial
PrinterSendResolves(i, result) ==
    /\ UNCHANGED envVars
    /\ i \in 1..Len(sends)
    /\ sendCPCLToUSB(result).resolved
    /\ LET a == sends[i]
       IN  /\ sends' = SubSeq(sends, 1, i - 1) \o SubSeq(sends, i + 1, Len(sends))
           /\ history' = addPrintHistory(history, a)
           /\ labelsPrinted' = labelsPrinted + 1
           /\ typeCounters' = incrementTypePrints(typeCounters, a.prefix, a.labelType)
           /\ sounds' = playSound(sounds, "printComplete")
           /\ logs' = AddLogs(logs, sendCPCLToUSB(result).logs
                          \o <<LogEntry("info", "CPCL sent to USB printer successfully"),
                               LogEntry("info", "Print completed")>>)
           /\ resetForm(timers)
           /\ submits' = startSubmission(submits, a)
    /\ UNCHANGED <<stepTimers, printerConnected, backendAvailability, totalScans, errors>>
    /\ WithinBounds

\* the USB transfer settles with a result the send rejects on: the catch block
PrinterSendRejects(i, result) ==
    /\ UNCHANGED envVars
    /\ i \in 1..Len(sends)
    /\ ~sendCPCLToUSB(result).resolved
    /\ sends' = SubSeq(sends, 1, i - 1) \o SubSeq(sends, i + 1, Len(sends))
    /\ printerFailure(sendCPCLToUSB(result).error, sounds,
                      AddLogs(logs, sendCPCLToUSB(result).logs), errors)
    /\ UNCHANGED <<leftSerial, rightSerial, detectedType, detectedPrefix, leftValidation,
                   backendNotice, step, refVars, printerConnected, submits,
                   backendAvailability, totalScans, labelsPrinted, typeCounters, history>>
    /\ WithinBounds

\* backendAvailabilityStore
markAvailable == [isAvailable |-> TRUE, lastError |-> Null]
markStopped(message) == [isAvailable |-> FALSE, lastError |-> message]

\* the remote call of a submission in flight returns
SubmissionResolves(i) ==
    /\ UNCHANGED envVars
    /\ i \in 1..Len(submits)
    /\ submits' = SubSeq(submits, 1, i - 1) \o SubSeq(submits, i + 1, Len(submits))
    /\ backendAvailability' = markAvailable
    /\ logs' = AddLogs(logs, <<LogEntry("info", "Backend submission successful")>>)
    /\ UNCHANGED <<sessionVars, refVars, printerConnected, sends, counterVars,
                   history, sounds>>

\* variant: a catch handler that raises the backend notice banner
submissionCatch_notice(error) ==
    /\ logs' = AddLogs(logs, <<LogEntry("warn", "Backend submission failed (non-blocking)")>>)
    /\ backendNotice' = Msg_CanisterStopped
    /\ UNCHANGED <<leftSerial, rightSerial, detectedType, detectedPrefix, leftValidation,
                   rightValidation, errorMessage, step, isPrinting>>

\* the catch handler of the submission: it logs and touches nothing else
submissionCatch(error) ==
    /\ logs' = AddLogs(logs,
           IF isNonBlockingBackendError(error)
           THEN <<LogEntry("info", "Backend submission skipped (canister stopped)")>>
           ELSE <<LogEntry("warn", "Backend submission failed (non-blocking)")>>)
    /\ UNCHANGED sessionVars

\* the remote call rejects: onError of the mutation, then the catch handler
SubmissionRejects(i, error) ==
    /\ UNCHANGED envVars
    /\ i \in 1..Len(submits)
    /\ submits' = SubSeq(submits, 1, i - 1) \o SubSeq(submits, i + 1, Len(submits))
    /\ backendAvailability' =
           IF isCanisterStoppedError(error) THEN markStopped(Msg_CanisterStopped)
           ELSE backendAvailability
    /\ submissionCatch(error)
    /\ UNCHANGED <<refVars, printerConnected, sends, counterVars, history, sounds>>

\* printerService.connect / disconnect complete: the store's isConnected flips
PrinterConnects ==
    /\ UNCHANGED <<mounted, calc, deviceLog, serviceCall, ledgerVars>>
    /\ ~printerConnected
    /\ printerConnected' = TRUE
    /\ connectionMethod' = Str_usb
    /\ usbDevice' = UsbPrinter
    /\ UNCHANGED <<sessionVars, refVars, sends, submits, backendAvailability,
                   counterVars, history, logs, sounds>>

PrinterDisconnects ==
    /\ UNCHANGED <<mounted, calc, deviceLog, serviceCall, ledgerVars>>
    /\ printerConnected
    /\ printerConnected' = FALSE
    /\ connectionMethod' = Null
    /\ usbDevice' = Null
    /\ UNCHANGED <<sessionVars, refVars, sends, submits, backendAvailability,
                   counterVars, history, logs, sounds>>

Next ==
    \/ \E v \in LeftInputs : handleLeftSerialChange(v)
    \/ handleLeftSerialKeyDown
    \/ \E v \in RightInputs : handleRightSerialChange(v)
    \/ handleRightSerialKeyDown
    \/ \E t \in timers : DebounceTimerFires(t)
    \/ StepTimerFires
    \/ ClearClicked
    \/ \E i \in 1..Len(sends), r \in UsbResults : PrinterSendResolves(i, r)
    \/ \E i \in 1..Len(sends), r \in UsbResults : PrinterSendRejects(i, r)
    \/ \E i \in 1..Len(submits) : SubmissionResolves(i)
    \/ \E i \in 1..Len(submits), e \in SubmitErrors : SubmissionRejects(i, e)
    \/ PrinterConnects
    \/ PrinterDisconnects

Spec == Init /\ [][Next]_vars

(***************************************************************************)
(* Leaving the scan tab.  AppShell changes the key of ScanPrintTab with    *)
(* the active tab, so the instance is unmounted; ScanPrintTab has no       *)
(* effect cleanup, and its pending timers and transfers stay as they are.  *)
(***************************************************************************)
Unmount ==
    /\ mounted
    /\ mounted' = FALSE
    /\ UNCHANGED <<sessionVars, refVars, printerConnected, sends, submits,
                   backendAvailability, counterVars, history, logs, sounds, calc,
                   serviceVars, ledgerVars>>

NextTab ==
    \/ Next
    \/ Unmount

SpecTab == Init /\ [][NextTab]_vars

(***************************************************************************)
(* The browser runs a scheduled timeout callback: the 100 ms callback of   *)
(* validateAndProcessLeftSerial is not postponed for ever.                 *)
(***************************************************************************)
SpecLive == Init /\ [][Next]_vars /\ WF_vars(StepTimerFires)

(***************************************************************************)
(* Properties of the scan-and-print session.                               *)
(***************************************************************************)

\* the print counter of one prefix and label type (0 while the key is absent)
PrintsOf(tc, k) == IF k \in DOMAIN tc THEN tc[k].prints ELSE 0
ScansOf(tc, k) == IF k \in DOMAIN tc THEN tc[k].scans ELSE 0
TypeKeys == DOMAIN typeCounters \cup DOMAIN typeCounters'

\* the session is back in its initial state
SessionIsReset ==
    /\ leftSerial' = <<>> /\ rightSerial' = <<>>
    /\ detectedType' = Null /\ detectedPrefix' = Null
    /\ leftValidation' = "idle" /\ rightValidation' = "idle"
    /\ errorMessage' = <<>> /\ step' = 1 /\ isPrinting' = FALSE

\* C1: under every interleaving of change events, Enter/Tab presses, debounce
\* firings and send completions, at most one printer send started by the
\* second-field validation is in flight at any moment.
C1_AtMostOneSendInFlight == Len(sends) <= 1

C1_SendInFlight == Len(sends) = 1 /\ isPrinting /\ step = 2

\* a printer send in flight resolves
SendResolved == \E i \in 1..Len(sends), r \in UsbResults : PrinterSendResolves(i, r)

\* C2: when the printer send resolves, exactly one history entry is added,
\* with success true, the text that was sent, the session's detected prefix
\* and label type and the two normalized serials; the total print counter
\* and the print counter of that prefix and type each grow by exactly one;
\* and the session is reset to its initial state.
C2_SuccessfulPrintEffects ==
    [][SendResolved =>
        /\ Len(history') = Len(history) + 1
        /\ SubSeq(history', 2, Len(history')) = history
        /\ history'[1] =
              [success |-> TRUE,
               cpcl |-> sends[1].cpcl,
               prefix |-> detectedPrefix,
               labelType |-> detectedType,
               leftSerial |-> normalizeSerial(leftSerial),
               rightSerial |-> normalizeSerial(rightSerial)]
        /\ history'[1].cpcl =
              generateCPCL(settings, normalizeSerial(leftSerial),
                           normalizeSerial(rightSerial), detectedPrefix).text
        /\ labelsPrinted' = labelsPrinted + 1
        /\ \A k \in TypeKeys :
              /\ PrintsOf(typeCounters', k) =
                    PrintsOf(typeCounters, k)
                        + (IF k = TypeKey(detectedPrefix, detectedType) THEN 1 ELSE 0)
              /\ ScansOf(typeCounters', k) = ScansOf(typeCounters, k)
        /\ SessionIsReset
    ]_vars

C2_PrintRecorded ==
    /\ Len(history) = 1 /\ labelsPrinted = 1
    /\ history[1].leftSerial = In_SS1 /\ history[1].rightSerial = <<"S", "S", "2">>
    /\ step = 1 /\ leftSerial = <<>> /\ ~isPrinting

\* a printer send in flight rejects
SendRejected == \E i \in 1..Len(sends), r \in UsbResults : PrinterSendRejects(i, r)

\* the printer service refuses the send in the turn that validated the serial
SendRefusedAtOnce ==
    /\ sounds'.success = sounds.success + 1
    /\ sounds'.error = sounds.error + 1

\* C3: when the printer send rejects, the second field's validation state is
\* error, the error message is non-empty, the error counter grows by exactly
\* one, no print counter changes, the lock flag is cleared, the step stays 2,
\* both serials and the detected prefix and type are kept, and no remote
\* submission is started.
C3_FailedPrintEffects ==
    [][(SendRejected \/ SendRefusedAtOnce) =>
        /\ rightValidation' = "error"
        /\ errorMessage' # <<>>
        /\ errors' = errors + 1
        /\ labelsPrinted' = labelsPrinted
        /\ \A k \in TypeKeys : PrintsOf(typeCounters', k) = PrintsOf(typeCounters, k)
        /\ history' = history
        /\ isPrinting' = FALSE
        /\ step = 2 /\ step' = 2
        /\ leftSerial' = leftSerial
        /\ normalizeSerial(rightSerial') = normalizeSerial(rightSerial)
        /\ SendRejected => rightSerial' = rightSerial
        /\ detectedPrefix' = detectedPrefix /\ detectedType' = detectedType
        /\ submits' = submits
    ]_vars

C3_PrintFailed ==
    /\ rightValidation = "error" /\ errorMessage = Msg_UsbCommunicationError
    /\ step = 2 /\ ~isPrinting /\ sends = <<>>
    /\ leftSerial # <<>> /\ rightSerial # <<>>

\* the messages a failed print attempt leaves in the second field
PrintFailureMessages ==
    {Msg_PrinterNotConnected, Msg_UsbCommunicationError, Msg_BluetoothCommunicationError,
     Msg_FailedToSendToPrinter, Msg_PrinterErrorOccurred}

\* the second field still shows the serial and the error of a failed print
\* attempt, and one more scan fits the bound of the model
FailedAttemptShown ==
    /\ step = 2 /\ ~isPrinting
    /\ rightValidation = "error" /\ errorMessage \in PrintFailureMessages
    /\ Len(lastCompletedRight) >= 3
    /\ normalizeSerial(rightSerial) = lastCompletedRight
    /\ totalScans + errors < MaxOutcomes

\* C4: after a second-field attempt that ended with 'Printer not connected'
\* or with a send failure, a later completion of the second field with the
\* same normalized serial, without a reset in between, is validated again
\* and, with the printer connected, starts a new print attempt.
C4_RetryStartsNewAttempt ==
    (FailedAttemptShown /\ printerConnected)
        => ENABLED (handleRightSerialKeyDown /\ Len(sends') = Len(sends) + 1)

\* C5: the remote submission is started only in the step in which the send
\* resolves and the history entry, the counter increments and the reset are
\* applied; exactly one is started per successful print, with the printed
\* prefix and serials, and none when validation fails or the send rejects.
C5_SubmissionAfterPrint ==
    [][ /\ submits' # submits /\ Len(submits') >= Len(submits) =>
            /\ SendResolved
            /\ Len(history') = Len(history) + 1
            /\ labelsPrinted' = labelsPrinted + 1
            /\ SessionIsReset
        /\ SendResolved =>
            /\ Len(submits') = Len(submits) + 1
            /\ SubSeq(submits', 1, Len(submits)) = submits
            /\ submits'[Len(submits')] =
                  [prefix |-> history'[1].prefix,
                   leftSerial |-> history'[1].leftSerial,
                   rightSerial |-> history'[1].rightSerial]
        /\ (errors' # errors \/ SendRejected) => submits' = submits
    ]_vars

C5_SubmissionInFlight ==
    /\ Len(submits) = 1 /\ Len(history) = 1 /\ labelsPrinted = 1
    /\ submits[1] = [prefix |-> Str_TT, leftSerial |-> In_TT1, rightSerial |-> In_TT1]
    /\ step = 1

\* C6: the settling of a remote submission, resolved or rejected, leaves the
\* print history, every counter and the session state unchanged; only the
\* logs and the backend-availability flag may change.
C6_SubmissionIsNonBlocking ==
    [][Len(submits') < Len(submits) =>
        UNCHANGED <<sessionVars, refVars, counterVars, history, sounds, sends,
                    printerConnected>>
    ]_vars

C6_SettledDuringNextSession ==
    /\ submits = <<>> /\ Len(history) = 1
    /\ step = 2 /\ leftValidation = "success"
    /\ ~backendAvailability.isAvailable
    /\ logs = <<LogEntry("info", "Backend submission skipped (canister stopped)")>>

\* feedback sounds played and validation outcomes counted so far
SoundsPlayed(snd) == snd.success + snd.error + snd.printComplete
OutcomesCounted(scans, errs) == scans + errs

\* what a validation pass may touch: everything but the pending timers
ValidationVars == <<sessionVars, lastCompletedLeft, lastCompletedRight, stepTimers,
                    counterVars, sends, history, logs, sounds>>

\* one validation pass of the value in the first field, by Enter or Tab
LeftPass ==
    /\ handleLeftSerialKeyDown
    /\ lastCompletedLeft' = normalizeSerial(leftSerial)
    /\ SoundsPlayed(sounds') = SoundsPlayed(sounds) + 1
    /\ OutcomesCounted(totalScans', errors') = OutcomesCounted(totalScans, errors) + 1

\* one validation pass of the value in the second field, by Enter or Tab
RightPass ==
    /\ handleRightSerialKeyDown
    /\ lastCompletedRight' = normalizeSerial(rightSerial)
    /\ SoundsPlayed(sounds') = SoundsPlayed(sounds) + 1
    /\ OutcomesCounted(totalScans', errors') = OutcomesCounted(totalScans, errors) + 1
    /\ Len(sends') <= Len(sends) + 1

\* C7: for each field, of two consecutive completions with the same
\* normalized value (length at least 3) the first causes one validation pass
\* (one sound, one counter increment, at most one print attempt) and the
\* second, with no reset and no other processed value in between, causes
\* none; after a reset, which forgets the processed value, the same value is
\* validated again.
C7_OneValidationPass ==
    /\ (~LeftDisabled /\ Len(normalizeSerial(leftSerial)) >= 3
            /\ OutcomesCounted(totalScans, errors) < MaxOutcomes) =>
          IF normalizeSerial(leftSerial) = lastCompletedLeft
          THEN ~ENABLED (handleLeftSerialKeyDown /\ ValidationVars' # ValidationVars)
          ELSE ENABLED LeftPass
    /\ (~RightDisabled /\ Len(normalizeSerial(rightSerial)) >= 3
            /\ OutcomesCounted(totalScans, errors) < MaxOutcomes) =>
          IF normalizeSerial(rightSerial) = lastCompletedRight
          THEN ~ENABLED (handleRightSerialKeyDown /\ ValidationVars' # ValidationVars)
          ELSE ENABLED RightPass

\* the first field's validation processes a serial that no prefix matches
LeftUnknownPrefix ==
    /\ lastCompletedLeft' # lastCompletedLeft
    /\ Len(lastCompletedLeft') >= 3
    /\ ~getPrefixMapping(settings, lastCompletedLeft').found

\* C8: when the first field completes with a normalized serial of length at
\* least 3 that no configured prefix matches, its validation state becomes
\* error with the message 'Unknown prefix', the error counter grows by
\* exactly one, the scan counters, the detected prefix and the detected type
\* are unchanged, the step remains 1, and no document is generated or sent.
C8_UnknownPrefixOnFirstField ==
    [][LeftUnknownPrefix =>
        /\ leftValidation' = "error"
        /\ errorMessage' = Msg_UnknownPrefix
        /\ errors' = errors + 1
        /\ totalScans' = totalScans /\ typeCounters' = typeCounters
        /\ detectedPrefix' = detectedPrefix /\ detectedType' = detectedType
        /\ step = 1 /\ step' = 1
        /\ sends' = sends /\ history' = history /\ ~isPrinting'
    ]_vars

\* the second field's validation processes a serial
RightProcessed ==
    /\ lastCompletedRight' # lastCompletedRight
    /\ Len(lastCompletedRight') >= 3

\* the prefix rule that matches the serial the second field processed
RightMapping == getPrefixMapping(settings, lastCompletedRight')

\* the display names of the label types of the configured prefix rules
DisplayNameOf(labelType) ==
    IF labelType = Str_dualBand THEN <<"D", "u", "a", "l", " ", "B", "a", "n", "d">>
    ELSE IF labelType = Str_miniBand THEN <<"M", "i", "n", "i", " ", "B", "a", "n", "d">>
    ELSE <<>>

\* C9: when the second field completes with a serial whose matched label
\* type differs from the type detected for the first serial, its validation
\* state becomes error with the message 'Label type mismatch: expected X,
\* got Y' (X, Y the display names of the first and second type), the error
\* counter grows by exactly one, the step remains 2, the lock flag is not
\* set and no document is generated or sent, printer connected or not.
C9_LabelTypeMismatch ==
    [][(RightProcessed /\ RightMapping.found /\ RightMapping.labelType # detectedType) =>
        /\ rightValidation' = "error"
        /\ errorMessage' = Msg_MismatchExpected \o DisplayNameOf(detectedType)
                              \o Msg_MismatchGot \o DisplayNameOf(RightMapping.labelType)
        /\ DisplayNameOf(detectedType) # <<>>
        /\ DisplayNameOf(RightMapping.labelType) # <<>>
        /\ errors' = errors + 1
        /\ totalScans' = totalScans /\ typeCounters' = typeCounters
        /\ step = 2 /\ step' = 2
        /\ ~isPrinting /\ ~isPrinting'
        /\ sends' = sends /\ history' = history /\ submits' = submits
        /\ sounds'.success = sounds.success
    ]_vars

C9_MismatchShown ==
    /\ rightValidation = "error" /\ step = 2 /\ ~isPrinting /\ printerConnected
    /\ detectedType = Str_dualBand
    /\ lastCompletedRight = In_TT1
    /\ Includes(errorMessage, <<"e", "x", "p", "e", "c", "t", "e", "d", " ", "D", "u", "a", "l",
                                " ", "B", "a", "n", "d", ",", " ", "g", "o", "t", " ",
                                "M", "i", "n", "i", " ", "B", "a", "n", "d">>)

\* C10: when the second field completes with a serial that matches a prefix
\* of the detected label type while the printer is not connected, its
\* validation state becomes error with the message 'Printer not connected',
\* the error counter grows by exactly one, the scan counters are not
\* incremented, the step remains 2, the lock flag is not set, and neither
\* document generation nor a printer send takes place.
C10_PrinterNotConnected ==
    [][(RightProcessed /\ RightMapping.found /\ RightMapping.labelType = detectedType
            /\ ~printerConnected) =>
        /\ rightValidation' = "error"
        /\ errorMessage' = Msg_PrinterNotConnected
        /\ errors' = errors + 1
        /\ totalScans' = totalScans /\ typeCounters' = typeCounters
        /\ step = 2 /\ step' = 2
        /\ ~isPrinting /\ ~isPrinting'
        /\ sends' = sends
        /\ sounds'.success = sounds.success
    ]_vars

\* the session as a reset leaves it: nothing entered, nothing processed
SessionAsReset ==
    /\ step = 1 /\ ~isPrinting
    /\ leftSerial = <<>> /\ rightSerial = <<>>
    /\ leftValidation = "idle" /\ rightValidation = "idle"
    /\ detectedPrefix = Null /\ detectedType = Null
    /\ errorMessage = <<>> /\ backendNotice = <<>>
    /\ lastCompletedLeft = <<>> /\ lastCompletedRight = <<>>

\* C11: a reset (Clear, or the reset after a successful print) leaves the
\* session at step 1 with both fields empty, idle validation states and no
\* detected prefix or type; and from then on, until an input event puts a
\* value into the first field, no step changes the session: the step stays 1
\* and no validation outcome is counted.
C11_ResetIsFinal ==
    [][ /\ (ClearClicked \/ SendResolved) =>
            (step' = 1 /\ leftSerial' = <<>> /\ rightSerial' = <<>>
               /\ leftValidation' = "idle" /\ rightValidation' = "idle"
               /\ detectedPrefix' = Null /\ detectedType' = Null)
        /\ (SessionAsReset /\ leftSerial' = <<>>) =>
            (step' = 1 /\ UNCHANGED <<sessionVars, totalScans, errors, sounds>>)
    ]_vars

(***************************************************************************)
(* The pure functions of the lookup, the units and the CPCL generator,     *)
(* each applied to inputs drawn from bounded sets.                         *)
(***************************************************************************)

\* the largest number of prefix rules in a configured list
MaxRules == 2

\* a pure function is called once, and the call leaves the scan tab and the
\* stores alone
CalcFrame ==
    /\ calc = NoCall
    /\ UNCHANGED <<sessionVars, refVars, printerConnected, sends, submits,
                   backendAvailability, counterVars, history, logs, sounds, mounted,
                   serviceVars, ledgerVars>>

Call(fn, args, result) == [fn |-> fn, args |-> args, result |-> result]

\* prefix rules an operator may configure: prefixes of each other, and the
\* same prefix with either label type
Str_SSV == <<"S", "S", "V">>
RuleEntries ==
    { <<pre, [labelType |-> Str_dualBand, title |-> Str_DualBandTitle]>> :
          pre \in {Str_SS, Str_SSV, Str_TT} }
    \cup { <<pre, [labelType |-> Str_miniBand, title |-> Str_MiniBandTitle]>> :
          pre \in {Str_SS, Str_SSV, Str_TT} }
RuleLists == UNION { [1..n -> RuleEntries] : n \in 0..MaxRules }
LookupSerials == {In_SS1, <<"S", "S", "V", "1">>, In_TT1, In_XY1, <<"S">>, <<>>}

CallGetPrefixMapping ==
    /\ CalcFrame
    /\ \E list \in RuleLists, serial \in LookupSerials :
          calc' = Call("getPrefixMapping", <<list, serial>>,
                       getPrefixMapping([settings EXCEPT !.prefixMappings = list], serial))

\* the positions of the list whose prefix is a string-prefix of the serial
MatchingRules(list, serial) ==
    { i \in 1..Len(list) : StartsWith(serial, list[i][1]) }

Str_QR == <<"Q", "R">>
Str_code39 == <<"c", "o", "d", "e", "3", "9">>
Str_TwoLines == <<"A", "\n", "B">>

GenBarcodeTypes == {Str_CODE128, Str_code39, Str_QR}
GenTitles == {Str_DualBandTitle, <<>>, Str_TwoLines}
GenScales == {Whole(1), Whole(2), Whole(0), Num(1), Num(0 - 1), NaN, PosInfinity}
GenSerials == {<<>>, In_SS1, <<"A", " ", "B">>, <<"A", "\n">>}
GenPrefixes == {Str_SS, Str_TT}

WithScale(layout, sc) == [layout EXCEPT !.scale = sc]

GenSettings ==
    { [settings EXCEPT !.barcodeType = bt,
                       !.prefixMappings =
                           << <<Str_SS, [labelType |-> Str_dualBand, title |-> t]>> >>,
                       !.titleLayout = WithScale(@, sc),
                       !.barcode1Layout = WithScale(@, sc),
                       !.serialText1Layout = WithScale(@, sc),
                       !.barcode2Layout = WithScale(@, sc),
                       !.serialText2Layout = WithScale(@, sc)] :
          bt \in GenBarcodeTypes, t \in GenTitles, sc \in GenScales }

CallGenerateCPCL ==
    /\ CalcFrame
    /\ \E st \in GenSettings, left \in GenSerials, right \in GenSerials,
          prefix \in GenPrefixes :
          calc' = Call("generateCPCL", <<st, left, right, prefix>>,
                       generateCPCL(st, left, right, prefix))

NoLineBreak(str) == \A i \in 1..Len(str) : str[i] # "\n"

\* the title the generator prints for a prefix: the title of the rule with
\* that prefix, and 'Label' without such a rule or with an empty title
ResolvedTitle(st, prefix) ==
    LET rules == { i \in 1..Len(st.prefixMappings) : st.prefixMappings[i][1] = prefix }
    IN  IF rules = {} THEN Str_Label
        ELSE LET last == CHOOSE i \in rules : \A j \in rules : j <= i
             IN  IF st.prefixMappings[last][2].title = <<>> THEN Str_Label
                 ELSE st.prefixMappings[last][2].title

CommandWords(doc) == [i \in 1..Len(doc) |-> doc[i].cmd]

LinesWith(doc, cmd) == { i \in 1..Len(doc) : doc[i].cmd = cmd }

\* the 14 lines in their order, with the header and width arguments, the
\* title and the serials in their places, and what follows from it
DocumentShape(st, left, right, title, doc) ==
    /\ CommandWords(doc) =
           << "!", "PAGE-WIDTH",
              "SETMAG", "TEXT", "SETMAG", "BARCODE",
              "SETMAG", "TEXT", "SETMAG", "BARCODE",
              "SETMAG", "TEXT", "SETMAG", "PRINT" >>
    /\ doc[1].args = <<0, 200, 200, mmToDots(st.heightMm), 1>>
    /\ doc[2].args = <<mmToDots(st.widthMm)>>
    /\ doc[4].text = title
    /\ doc[6].text = left
    /\ doc[8].text = left
    /\ doc[10].text = right
    /\ doc[12].text = right
    /\ Cardinality(LinesWith(doc, "BARCODE")) = 2
    /\ LinesWith(doc, "PRINT") = {Len(doc)}
    /\ \A i \in LinesWith(doc, "TEXT") :
           i < Len(doc) /\ doc[i + 1].cmd = "SETMAG" /\ doc[i + 1].args = <<1, 1>>

\* C13 as stated: for any label settings and any two serials without line
\* breaks, empty ones included, generateCPCL returns exactly 14 command
\* lines: the header, PAGE-WIDTH, SETMAG / TEXT title / SETMAG 1 1, BARCODE
\* with the first serial, SETMAG / TEXT first serial / SETMAG 1 1, BARCODE
\* with the second serial, SETMAG / TEXT second serial / SETMAG 1 1, PRINT; so
\* two BARCODE lines, one PRINT line, PRINT last, and magnification reset to
\* 1 1 after every TEXT.
C13_DocumentShape ==
    (/\ calc.fn = "generateCPCL"
     /\ NoLineBreak(calc.args[2])
     /\ NoLineBreak(calc.args[3]))
    => DocumentShape(calc.args[1], calc.args[2], calc.args[3],
                     ResolvedTitle(calc.args[1], calc.args[4]), calc.result.text)

\* C13, amended: the same for settings whose title for the prefix has no
\* line break either.
C13_DocumentShapeOneLineTitle ==
    (/\ calc.fn = "generateCPCL"
     /\ NoLineBreak(calc.args[2])
     /\ NoLineBreak(calc.args[3])
     /\ NoLineBreak(ResolvedTitle(calc.args[1], calc.args[4])))
    => DocumentShape(calc.args[1], calc.args[2], calc.args[3],
                     ResolvedTitle(calc.args[1], calc.args[4]), calc.result.text)

\* a document generated for two empty serials, an unsupported barcode type
\* and a scale that is not a number
C13_EmptySerialsGenerated ==
    /\ calc.fn = "generateCPCL"
    /\ calc.args[2] = <<>>
    /\ calc.args[3] = <<>>
    /\ calc.args[1].barcodeType = Str_QR
    /\ calc.args[1].titleLayout.scale = NaN
    /\ Len(calc.result.text) = 14

(***************************************************************************)
(* Calls of the left-aligned clamp with whole numbers of dots: widths from *)
(* below zero to MaxLabelDots, requested positions from left of the label  *)
(* to right of it.                                                         *)
(***************************************************************************)
MaxLabelDots == 20

DotWidths == (0 - 3)..MaxLabelDots
DotPositions == (0 - 3)..(MaxLabelDots + 5)

CallCalculateLeftAlignedBarcodeX ==
    /\ CalcFrame
    /\ \E est \in DotWidths, label \in DotWidths, x \in DotPositions, index \in {1, 2} :
          calc' = Call("calculateLeftAlignedBarcodeX", <<est, label, x, index>>,
                       calculateLeftAlignedBarcodeX(est, label, x, index))

\* C14: for whole-number inputs with estimatedWidthDots < labelWidthDots - 10
\* the result keeps the margin of 5 dots on both sides, that is
\* 5 <= adjustedX and adjustedX + estimatedWidthDots <= labelWidthDots - 5,
\* whatever X was requested, negative or beyond the label width.
C14_BarcodeStaysInsideMargins ==
    (/\ calc.fn = "calculateLeftAlignedBarcodeX"
     /\ calc.args[1] < calc.args[2] - 10)
    => /\ 5 <= calc.result.adjustedX
       /\ calc.result.adjustedX + calc.args[1] <= calc.args[2] - 5

\* a barcode that fits, requested to the right of the label and moved back
C14_ClampedFromBeyondTheLabel ==
    /\ calc.fn = "calculateLeftAlignedBarcodeX"
    /\ calc.args[1] > 0
    /\ calc.args[1] < calc.args[2] - 10
    /\ calc.args[3] > calc.args[2]
    /\ calc.result.wasClamped
    /\ calc.result.adjustedX = calc.args[2] - calc.args[1] - 5

(***************************************************************************)
(* Calls of the symbology lookup: every name of the table, names in lower  *)
(* and mixed case, and names the table does not have (a printer token, a   *)
(* name with a blank, a property name of every object, the empty string).  *)
(***************************************************************************)
BarcodeTypeInputs ==
    { BARCODE_MAPPINGS[i].key : i \in 1..Len(BARCODE_MAPPINGS) }
    \cup { Str_code39, <<"E", "a", "n", "8">>, Str_QR, Str_128, <<>>,
           <<"C", "O", "D", "E", " ", "1", "2", "8">>,
           <<"c", "o", "n", "s", "t", "r", "u", "c", "t", "o", "r">> }

CallGetBarcodeMapping ==
    /\ CalcFrame
    /\ \E uiType \in BarcodeTypeInputs :
          calc' = Call("getBarcodeMapping", <<uiType>>,
                       [mapping |-> getBarcodeMapping(uiType),
                        supported |-> isBarcodeTypeSupported(uiType)])

TableEntries == { BARCODE_MAPPINGS[i] : i \in 1..Len(BARCODE_MAPPINGS) }

\* C15: for every string given as barcode type the lookup returns a mapping
\* with a non-empty printer token, a recommended width and a recommended
\* ratio; it is the table entry of the upper-cased name exactly when
\* isBarcodeTypeSupported is true for the name, and otherwise the fallback,
\* whose token is CODE128's token '128'; and a document generated with an
\* unsupported type is complete (header first, two BARCODE lines, PRINT
\* last) with token 128 on its BARCODE lines.
C15_MappingNeverFails ==
    /\ calc.fn = "getBarcodeMapping" =>
           LET uiType == calc.args[1]
               mapping == calc.result.mapping
               code128 == CHOOSE e \in TableEntries : e.key = Str_CODE128
           IN  /\ mapping.cpclToken # <<>>
               /\ mapping.recommendedWidth \in Nat \ {0}
               /\ mapping.recommendedRatio \in {0, 1, 2}
               /\ calc.result.supported <=> mapping \in TableEntries
               /\ calc.result.supported => mapping.key = ToUpperCase(uiType)
               /\ ~calc.result.supported =>
                      /\ mapping = FALLBACK_MAPPING
                      /\ mapping.cpclToken = code128.cpclToken
                      /\ mapping.cpclToken = Str_128
    /\ (calc.fn = "generateCPCL" /\ ~isBarcodeTypeSupported(calc.args[1].barcodeType)) =>
           LET doc == calc.result.text
           IN  /\ doc[1].cmd = "!"
               /\ LinesWith(doc, "PRINT") = {Len(doc)}
               /\ Cardinality(LinesWith(doc, "BARCODE")) = 2
               /\ \A i \in LinesWith(doc, "BARCODE") : doc[i].token = Str_128

\* a name the table does not have, answered with the fallback
C15_FallbackReturned ==
    /\ calc.fn = "getBarcodeMapping"
    /\ calc.args[1] = Str_QR
    /\ ~calc.result.supported
    /\ calc.result.mapping.cpclToken = Str_128

(***************************************************************************)
(* Calls of clampScale: every multiple of 1/ScaleDenominator from          *)
(* -MaxScaleParts to MaxScaleParts parts, NaN and the two infinities.      *)
(***************************************************************************)
MaxScaleParts == 12

ScaleInputs ==
    { Num(q) : q \in (0 - MaxScaleParts)..MaxScaleParts }
    \cup {NaN, PosInfinity, NegInfinity}

CallClampScale ==
    /\ CalcFrame
    /\ \E scale \in ScaleInputs :
          calc' = Call("clampScale", <<scale>>, clampScale(scale))

\* C16: for every numeric scale, with 0, negative values, fractions below
\* 0.5, NaN and both infinities among them, clampScale returns a whole number
\* >= 1: the scale rounded to the nearest whole number (halves upwards) when
\* that is finite and at least 1, and 1 otherwise; so both arguments of every
\* SETMAG line of a generated document are whole numbers >= 1.
C16_ScaleIsAtLeastOne ==
    /\ calc.fn = "clampScale" =>
           LET scale == calc.args[1]
               value == calc.result.value
           IN  /\ value \in Nat \ {0}
               /\ IF scale.k = "num" /\ 2 * scale.q >= ScaleDenominator
                  THEN /\ 2 * ScaleDenominator * value <= 2 * scale.q + ScaleDenominator
                       /\ 2 * scale.q + ScaleDenominator < 2 * ScaleDenominator * (value + 1)
                  ELSE value = 1
    /\ calc.fn = "generateCPCL" =>
           \A i \in LinesWith(calc.result.text, "SETMAG") :
              /\ Len(calc.result.text[i].args) = 2
              /\ \A k \in 1..2 : calc.result.text[i].args[k] \in Nat \ {0}

\* a scale that is not a number, answered with 1 and a warning
C16_NaNClamped ==
    /\ calc.fn = "clampScale"
    /\ calc.args[1] = NaN
    /\ calc.result.value = 1
    /\ calc.result.logs # <<>>

(***************************************************************************)
(* Calls of the width estimate for two data lengths n <= m with the same   *)
(* narrow-bar width and ratio code.                                        *)
(***************************************************************************)
MaxDataLength == 8
MaxBarWidth == 3

CallEstimateBarcodeWidthDots ==
    /\ CalcFrame
    /\ \E n \in 0..MaxDataLength, m \in 0..MaxDataLength, w \in 1..MaxBarWidth,
          r \in {0, 1, 2} :
          /\ n <= m
          /\ calc' = Call("estimateBarcodeWidthDots", <<n, m, w, r>>,
                          <<estimateBarcodeWidthDots(n, w, r),
                            estimateBarcodeWidthDots(m, w, r)>>)

\* C17: for a fixed narrow-bar width w >= 1 and ratio code r in {0, 1, 2}
\* the estimated width does not decrease when the data length grows:
\* n <= m implies estimate(n, w, r) <= estimate(m, w, r), for n >= 0.
C17_EstimateIsMonotone ==
    (calc.fn = "estimateBarcodeWidthDots" /\ calc.args[1] <= calc.args[2])
    => calc.result[1] <= calc.result[2]

\* one more character, a wider estimate
C17_LongerDataEstimated ==
    /\ calc.fn = "estimateBarcodeWidthDots"
    /\ calc.args[2] = calc.args[1] + 1
    /\ calc.result[1] < calc.result[2]

(***************************************************************************)
(* Calls of the unit conversions for every length of 0 to MaxMmParts parts *)
(* of 1/ScaleDenominator mm.                                               *)
(***************************************************************************)
MaxMmParts == 120

CallMmToDots ==
    /\ CalcFrame
    /\ \E q \in 0..MaxMmParts :
          LET dots == mmToDotsNumber(Num(q)).q \div ScaleDenominator
          IN  calc' = Call("mmToDots", <<Num(q)>>,
                           [dots |-> dots, px |-> dotsToPx(dots), direct |-> mmToPx(Num(q))])

\* |a - b| <= c for fractions with positive denominators
WithinFrac(a, b, c) ==
    LET diff == a.num * b.den - b.num * a.den
        abs == IF diff >= 0 THEN diff ELSE 0 - diff
    IN  abs * c.den <= c.num * a.den * b.den

\* C18: for every length m >= 0 of the range, mmToDots(m) is the whole
\* number nearest to m * 203 / 25.4, at most half a dot away, so that
\* dotsToPx(mmToDots(m)) is at most dotsToPx(1), the pixel size of one dot,
\* away from mmToPx(m).
C18_RoundTripWithinOneDot ==
    calc.fn = "mmToDots" =>
        LET mm == calc.args[1]
        IN  /\ WithinFrac(Frac(calc.result.dots, 1),
                          Frac(mm.q * 1015, 127 * ScaleDenominator),
                          Frac(1, 2))
            /\ WithinFrac(calc.result.px, calc.result.direct, dotsToPx(1))

\* a length that is not a whole number of dots
C18_LengthRounded ==
    /\ calc.fn = "mmToDots"
    /\ calc.args[1].q > 0
    /\ calc.result.dots > 0
    /\ ~WithinFrac(calc.result.px, calc.result.direct, Frac(0, 1))

(***************************************************************************)
(* Calls of both entry points of the generator with the same settings and  *)
(* serials: one with a prefix, one with a title.                           *)
(***************************************************************************)
Str_Other == <<"O", "t", "h", "e", "r">>

TitleArguments == {Str_DualBandTitle, Str_Label, Str_Other, Str_TwoLines, <<>>}
PairSerials == {<<>>, In_SS1, <<"A", "\n">>}

CallGenerateCPCLWithTitle ==
    /\ CalcFrame
    /\ \E st \in GenSettings, left \in PairSerials, right \in PairSerials,
          prefix \in GenPrefixes, title \in TitleArguments :
          calc' = Call("generateCPCLWithTitle", <<st, left, right, prefix, title>>,
                       [withTitle |-> generateCPCLWithTitle(st, left, right, title).text,
                        byPrefix |-> generateCPCL(st, left, right, prefix).text])

\* the two documents have the same lines except for the fourth, the title's
\* TEXT line
DifferOnlyInTitleLine(a, b) ==
    /\ Len(a) = Len(b)
    /\ \A i \in 1..Len(a) : i # 4 => a[i] = b[i]
    /\ a[4].cmd = "TEXT" /\ b[4].cmd = "TEXT"
    /\ a[4].args = b[4].args

\* C19 as stated: for the same settings and serials,
\* generateCPCLWithTitle(settings, left, right, t) returns the document of
\* generateCPCL(settings, left, right, prefix) whenever t is the title that
\* generateCPCL resolves for the prefix (the mapped title, or 'Label' without
\* a mapping or with an empty title); for any other t the two documents
\* differ only in the title TEXT line.
C19_WithTitleIsTheSameGenerator ==
    calc.fn = "generateCPCLWithTitle" =>
        IF calc.args[5] = ResolvedTitle(calc.args[1], calc.args[4])
        THEN calc.result.withTitle = calc.result.byPrefix
        ELSE DifferOnlyInTitleLine(calc.result.withTitle, calc.result.byPrefix)

\* C19, amended: the documents are equal when t is the resolved title; for
\* any other t they differ only in the title TEXT line provided that neither
\* t nor the resolved title contains a line break.
C19_WithOneLineTitleIsTheSameGenerator ==
    calc.fn = "generateCPCLWithTitle" =>
        IF calc.args[5] = ResolvedTitle(calc.args[1], calc.args[4])
        THEN calc.result.withTitle = calc.result.byPrefix
        ELSE (NoLineBreak(calc.args[5])
              /\ NoLineBreak(ResolvedTitle(calc.args[1], calc.args[4])))
             => DifferOnlyInTitleLine(calc.result.withTitle, calc.result.byPrefix)

\* a test print with a title of its own: only the title line is different
C19_OtherTitlePrinted ==
    /\ calc.fn = "generateCPCLWithTitle"
    /\ calc.args[5] = Str_Other
    /\ calc.result.withTitle # calc.result.byPrefix
    /\ calc.result.withTitle[4].text = Str_Other
    /\ calc.result.byPrefix[4].text = Str_DualBandTitle
    /\ DifferOnlyInTitleLine(calc.result.withTitle, calc.result.byPrefix)

\* C20: after the scan tab instance is unmounted, no debounce timer that
\* was pending in it runs a validation, changes counters or history, or
\* starts a printer send.
C20_NoTimerWorkAfterUnmount ==
    [][ (~mounted /\ \E t \in timers : DebounceTimerFires(t))
        => UNCHANGED <<counterVars, history, sends, sounds, logs>> ]_vars

\* C21: every document the scan flow sends pairs two serials validated for
\* the session: the first serial of the document starts with the detected
\* prefix of the print attempt, and both serials are matched by rules of its
\* detected label type; also when the first field receives input between its
\* successful validation and the delayed change to step 2.
C21_DocumentPairsValidatedSerials ==
    \A i \in 1..Len(sends) :
        LET first == sends[i].cpcl[6].text
            second == sends[i].cpcl[10].text
        IN  /\ StartsWith(first, sends[i].prefix)
            /\ getPrefixMapping(settings, first).found
            /\ getPrefixMapping(settings, first).labelType = sends[i].labelType
            /\ getPrefixMapping(settings, second).found
            /\ getPrefixMapping(settings, second).labelType = sends[i].labelType

\* a step runs at most one validation pass: at most one scan counted, one
\* error counted, one success sound and one send started
AtMostOnePass ==
    /\ totalScans' - totalScans \in {0, 1}
    /\ errors' - errors \in {0, 1}
    /\ sounds'.success - sounds.success \in {0, 1}
    /\ sounds'.error - sounds.error \in {0, 1}
    /\ Len(sends') <= Len(sends) + 1

\* the step runs no validation
NoPass ==
    UNCHANGED <<lastCompletedLeft, lastCompletedRight, leftValidation, rightValidation,
                counterVars, sounds, sends, history>>

\* C22: a change event replaces the pending debounce timer, so that after a
\* burst of change events in one field exactly one timer is pending, for the
\* value of the last event, and no validation has run; the timer then runs
\* one validation, of that value.  Enter or Tab cancels the pending timer
\* and validates the field's current value at once, so a burst that ends with
\* a terminator key also gives one validation pass.
C22_OneValidationPerBurst ==
    [][ /\ Cardinality(timers') <= 1
        /\ (\E v \in LeftInputs : handleLeftSerialChange(v)) =>
               /\ \E t \in timers' :
                     timers' = {t} /\ t.kind = "left" /\ t.value = leftSerial'
               /\ NoPass
        /\ (\E v \in RightInputs : handleRightSerialChange(v)) =>
               /\ \E t \in timers' :
                     timers' = {t} /\ t.kind = "right" /\ t.value = rightSerial'
               /\ NoPass
        /\ (\E t \in timers : DebounceTimerFires(t)) =>
               /\ timers' = {}
               /\ AtMostOnePass
               /\ \A t \in timers :
                     /\ t.kind = "left" =>
                           lastCompletedLeft' \in {lastCompletedLeft, normalizeSerial(t.value)}
                     /\ t.kind = "right" =>
                           lastCompletedRight' \in {lastCompletedRight, normalizeSerial(t.value)}
        /\ handleLeftSerialKeyDown =>
               /\ timers' = {}
               /\ AtMostOnePass
               /\ lastCompletedLeft' \in {lastCompletedLeft, normalizeSerial(leftSerial)}
        /\ handleRightSerialKeyDown =>
               /\ timers' = {}
               /\ AtMostOnePass
               /\ lastCompletedRight' \in {lastCompletedRight, normalizeSerial(rightSerial)}
      ]_vars

\* the second field holds a value whose timer is pending, after the first
\* field was validated by its own
C22_TimerPendingForLastValue ==
    /\ step = 2
    /\ lastCompletedLeft = In_SS1
    /\ rightSerial = In_SS2suffix
    /\ lastCompletedRight = <<>>
    /\ \E t \in timers : timers = {t} /\ t.kind = "right" /\ t.value = In_SS2suffix

\* the first field's validation processes a serial that a configured prefix
\* matches
LeftMatched ==
    /\ lastCompletedLeft' # lastCompletedLeft
    /\ Len(lastCompletedLeft') >= 3
    /\ (StartsWith(lastCompletedLeft', Str_SS) \/ StartsWith(lastCompletedLeft', Str_TT))

MatchedPrefix == IF StartsWith(lastCompletedLeft', Str_SS) THEN Str_SS ELSE Str_TT
MatchedType == IF StartsWith(lastCompletedLeft', Str_SS) THEN Str_dualBand ELSE Str_miniBand

\* C23: when the first field completes with a serial that a configured
\* prefix matches, its validation state becomes success, the global scan
\* counter and the scan counter of the key prefix:labelType of the match each
\* grow by exactly one, the detected prefix and type are those of the match,
\* and, unless a reset intervenes, the session eventually reaches step 2.
C23_FirstFieldMatched ==
    /\ [][LeftMatched =>
            /\ leftValidation' = "success"
            /\ totalScans' = totalScans + 1
            /\ errors' = errors
            /\ detectedPrefix' = MatchedPrefix
            /\ detectedType' = MatchedType
            /\ \A k \in TypeKeys :
                  /\ ScansOf(typeCounters', k) =
                        ScansOf(typeCounters, k)
                            + (IF k = MatchedPrefix \o <<":">> \o MatchedType THEN 1 ELSE 0)
                  /\ PrintsOf(typeCounters', k) = PrintsOf(typeCounters, k)
            /\ MatchedPrefix \o <<":">> \o MatchedType \in DOMAIN typeCounters'
       ]_vars
    /\ [](leftValidation = "success" => <>(step = 2 \/ SessionAsReset))

\* a serial of the custom type was matched and step 2 was reached
C23_CustomTypeAtStepTwo ==
    /\ step = 2
    /\ leftValidation = "success"
    /\ detectedPrefix = Str_TT
    /\ detectedType = Str_miniBand
    /\ lastCompletedLeft = In_TT1
    /\ totalScans = 1
    /\ ScansOf(typeCounters, <<"T", "T", ":", "m", "i", "n", "i", "B", "a", "n", "d">>) = 1

(***************************************************************************)
(* Print attempts under the assumption that a send settles.  The stored    *)
(* settings may lack a layout (an earlier version's settings, kept by      *)
(* migrateSettings), and then generateCPCL throws inside the try block.    *)
(***************************************************************************)
\* Enter or Tab in the second field while the stored settings lack a layout
handleRightSerialKeyDownWithoutLayout ==
    /\ mounted
    /\ UNCHANGED envVars
    /\ ~RightDisabled
    /\ ~PrintingLock(CurrentClosure)
    /\ validateAndProcessRightSerialWith(settingsWithoutLayout, rightSerial,
                                         CurrentClosure, clearPendingTimer(timers))
    /\ WithinBounds

NextPrint ==
    \/ Next
    \/ handleRightSerialKeyDownWithoutLayout

\* every send in flight settles: it resolves or it rejects
SpecPrint == Init /\ [][NextPrint]_vars /\ WF_vars(SendResolved \/ SendRejected)

\* the lock flag is released in this step
AttemptEnded == isPrinting /\ ~isPrinting'

\* a pass on the second field got as far as generateCPCL, which threw
GenerationThrew ==
    /\ totalScans' = totalScans + 1
    /\ handleRightSerialKeyDownWithoutLayout

\* C24: assuming every printer send eventually resolves or rejects, a print
\* attempt terminates: whenever isPrinting is true it eventually is false
\* again; the flag is released only by the reset after a resolved send or by
\* the failure handler after a rejected one; and an attempt whose CPCL
\* generation throws ends in the failure handler in the same turn, with the
\* flag false and nothing sent.
C24_PrintAttemptTerminates ==
    /\ [](isPrinting => <>(~isPrinting))
    /\ [][AttemptEnded =>
            \/ SendResolved /\ SessionIsReset
            \/ SendRejected /\ rightValidation' = "error" /\ errors' = errors + 1]_vars
    /\ [][GenerationThrew =>
            /\ ~isPrinting'
            /\ rightValidation' = "error"
            /\ errorMessage' = Msg_FailedToSendToPrinter
            /\ errors' = errors + 1
            /\ sends' = sends]_vars

\* a session whose attempt has ended in the failure handler, the lock released
C24_AttemptReleasedByFailureHandler ==
    /\ ~isPrinting /\ sends = <<>> /\ step = 2
    /\ rightValidation = "error" /\ errorMessage = Msg_FailedToSendToPrinter
    /\ totalScans = 2 /\ errors = 1 /\ labelsPrinted = 0
    /\ sounds.success = 2 /\ sounds.error = 1

\* what the handlers of the session read and write
SessionObservables ==
    <<step, leftSerial, rightSerial, detectedPrefix, detectedType, leftValidation,
      rightValidation, errorMessage, backendNotice, isPrinting, lastCompletedLeft,
      lastCompletedRight, timers, counterVars, sounds, sends, history>>

\* a change event, an Enter/Tab press, a debounce firing or a click on Clear
InputEvent ==
    \/ \E v \in LeftInputs : handleLeftSerialChange(v)
    \/ \E v \in RightInputs : handleRightSerialChange(v)
    \/ handleLeftSerialKeyDown
    \/ handleRightSerialKeyDown
    \/ \E t \in timers : DebounceTimerFires(t)
    \/ ClearClicked

\* C25: while isPrinting is true no change event, Enter/Tab press, debounce
\* firing or Clear click has an effect (none of them can act on the session),
\* and every step that is not the completion of the send in flight leaves the
\* step, the two serials, the detected prefix and type, the validation
\* states, the counters, the sounds, the sends and the history as they are.
C25_LockedWhilePrinting ==
    /\ [](isPrinting => ~ENABLED InputEvent)
    /\ [][(isPrinting /\ ~(SendResolved \/ SendRejected)) =>
            UNCHANGED SessionObservables]_vars

\* a send is in flight while a step timer of the first field is still pending
C25_TimerPendingWhilePrinting ==
    /\ isPrinting /\ Len(sends) = 1 /\ stepTimers > 0
    /\ step = 2 /\ rightValidation = "success"

(***************************************************************************)
(* Calls of generateCPCL with settings that differ in geometry: the first  *)
(* barcode's height and scale, all five layouts moved by whole millimetres *)
(* to the left of, inside and beyond the label, and the calibration        *)
(* offsets absent, zero, or set; serials of 0, 3 and 8 characters.         *)
(***************************************************************************)
LayoutHeights == {0, 1, 8}
LayoutScales == {Whole(1), Num(1), Whole(0), Num(0 - 4), NaN, PosInfinity, NegInfinity}
LayoutShiftsX == {0 - 5, 0, 60}
LayoutShiftsY == {0 - 20, 0, 30}
LayoutOffsets == {<<>>, <<0, 0>>, <<0 - 3, 2>>, <<4, 0 - 1>>}
LayoutSerials == {<<>>, In_SS1, <<"S", "S", "1", "2", "3", "4", "5", "6">>}

Moved(layout, dx, dy) == [layout EXCEPT !.x = @ + dx, !.y = @ + dy]

\* settings with the two offsets set, or, for <<>>, without them
WithOffsets(st, off) ==
    IF off = <<>>
    THEN [f \in DOMAIN st \ {"calibrationOffsetXmm", "calibrationOffsetYmm"} |-> st[f]]
    ELSE [st EXCEPT !.calibrationOffsetXmm = off[1], !.calibrationOffsetYmm = off[2]]

LayoutSettings ==
    { WithOffsets(
          [settings EXCEPT
              !.titleLayout = Moved(@, dx, dy),
              !.barcode1Layout = [Moved(@, dx, dy) EXCEPT !.height = h, !.scale = sc],
              !.serialText1Layout = Moved(@, dx, dy),
              !.barcode2Layout = Moved(@, dx, dy),
              !.serialText2Layout = Moved(@, dx, dy)],
          off) :
        h \in LayoutHeights, sc \in LayoutScales, dx \in LayoutShiftsX,
        dy \in LayoutShiftsY, off \in LayoutOffsets }

CallGenerateCPCLForLayout ==
    /\ CalcFrame
    /\ \E st \in LayoutSettings, left \in LayoutSerials, right \in LayoutSerials :
          calc' = Call("generateCPCL", <<st, left, right, Str_SS>>,
                       generateCPCL(st, left, right, Str_SS))

\* the k-th line of a document with the given command word
NthLineWith(doc, cmd, k) ==
    CHOOSE i \in LinesWith(doc, cmd) :
        Cardinality({ j \in LinesWith(doc, cmd) : j <= i }) = k

BarcodeLayouts(st) == <<st.barcode1Layout, st.barcode2Layout>>

\* C29: the height argument of every BARCODE line of a generated document is
\* a whole number greater than 0: mmToDots(layout height in mm * layout
\* scale) when that is finite and greater than 0, and the fallback 60 when it
\* is 0, negative, NaN or infinite; and the document is generated to its
\* PRINT line whatever the height.
C29_BarcodeHeightIsPositive ==
    calc.fn = "generateCPCL" =>
        LET st == calc.args[1]
            doc == calc.result.text
        IN  /\ Cardinality(LinesWith(doc, "BARCODE")) = 2
            /\ doc[Len(doc)].cmd = "PRINT"
            /\ \A k \in {1, 2} :
                   LET height == doc[NthLineWith(doc, "BARCODE", k)].args[3]
                       layout == BarcodeLayouts(st)[k]
                       computed == mmToDotsNumber(TimesWhole(layout.height, layout.scale))
                   IN  /\ height \in Nat /\ height > 0
                       /\ IF isFinite(computed) /\ computed.q > 0
                          THEN Whole(height) = computed
                          ELSE height = 60

\* a first barcode with a NaN scale printed 60 dots high, the second one 64
C29_FallbackHeightPrinted ==
    /\ calc.fn = "generateCPCL"
    /\ calc.args[1].barcode1Layout.scale = NaN
    /\ calc.args[1].barcode1Layout.height = 8
    /\ calc.result.text[NthLineWith(calc.result.text, "BARCODE", 1)].args[3] = 60
    /\ calc.result.text[NthLineWith(calc.result.text, "BARCODE", 2)].args[3] = 64

TextLayouts(st) == <<st.titleLayout, st.serialText1Layout, st.serialText2Layout>>

\* a calibration offset of the settings, an absent one read as 0
OffsetOrZero(st, field) == IF field \in DOMAIN st THEN st[field] ELSE 0

\* C30: in a generated document, with absent calibration offsets read as 0,
\* every TEXT line has X = mmToDots(x + offsetXmm) and Y = mmToDots(y +
\* offsetYmm) of its layout, unclamped; every BARCODE line has Y = mmToDots(y
\* + offsetYmm) and X = the adjustedX of calculateLeftAlignedBarcodeX for the
\* requested X = mmToDots(x + offsetXmm), the label width in dots and the
\* estimated width of that barcode's serial.
C30_PositionsFollowLayoutAndOffsets ==
    calc.fn = "generateCPCL" =>
        LET st == calc.args[1]
            doc == calc.result.text
            serials == <<calc.args[2], calc.args[3]>>
            offX == OffsetOrZero(st, "calibrationOffsetXmm")
            offY == OffsetOrZero(st, "calibrationOffsetYmm")
            bm == getBarcodeMapping(st.barcodeType)
        IN  /\ Cardinality(LinesWith(doc, "TEXT")) = 3
            /\ \A k \in {1, 2, 3} :
                   LET line == doc[NthLineWith(doc, "TEXT", k)]
                       layout == TextLayouts(st)[k]
                   IN  /\ line.args[3] = mmToDots(layout.x + offX)
                       /\ line.args[4] = mmToDots(layout.y + offY)
            /\ Cardinality(LinesWith(doc, "BARCODE")) = 2
            /\ \A k \in {1, 2} :
                   LET line == doc[NthLineWith(doc, "BARCODE", k)]
                       layout == BarcodeLayouts(st)[k]
                       estimate == estimateBarcodeWidthDots(
                                       Len(serials[k]), bm.recommendedWidth,
                                       bm.recommendedRatio)
                   IN  /\ line.args[5] = mmToDots(layout.y + offY)
                       /\ line.args[4] =
                              calculateLeftAlignedBarcodeX(
                                  estimate, mmToDots(st.widthMm),
                                  mmToDots(layout.x + offX), k).adjustedX

\* a title printed left of and above the label, the first barcode moved to
\* the margin
C30_TextOutsideTheLabel ==
    /\ calc.fn = "generateCPCL"
    /\ OffsetOrZero(calc.args[1], "calibrationOffsetXmm") = 0 - 3
    /\ calc.args[1].titleLayout.x = 0 - 3
    /\ calc.args[1].titleLayout.y = 0 - 19
    /\ calc.result.text[NthLineWith(calc.result.text, "TEXT", 1)].args[3] = 0 - 48
    /\ calc.result.text[NthLineWith(calc.result.text, "TEXT", 1)].args[4] = 0 - 136
    /\ calc.result.text[NthLineWith(calc.result.text, "BARCODE", 1)].args[4] = 5

\* the distance of two whole numbers
Distance(a, b) == IF a >= b THEN a - b ELSE b - a

\* C27: for all whole-number inputs calculateLeftAlignedBarcodeX returns
\* originalX = requestedX, adjustedX = min(max(requestedX, 5),
\* max(5, labelWidthDots - estimatedWidthDots - 5)), and wasClamped true
\* exactly when |adjustedX - requestedX| > 0.5; a requested X inside the range
\* comes back unchanged and unflagged; and when estimatedWidthDots >=
\* labelWidthDots - 10 the adjusted X is 5 whatever X was requested.
C27_LeftAlignedXIsTheClamp ==
    calc.fn = "calculateLeftAlignedBarcodeX" =>
        LET est == calc.args[1]
            label == calc.args[2]
            x == calc.args[3]
            upper == IF label - est - 5 >= 5 THEN label - est - 5 ELSE 5
            lifted == IF x >= 5 THEN x ELSE 5
            expected == IF lifted <= upper THEN lifted ELSE upper
        IN  /\ calc.result.originalX = x
            /\ calc.result.adjustedX = expected
            /\ calc.result.wasClamped <=> (2 * Distance(calc.result.adjustedX, x) > 1)
            /\ (5 <= x /\ x <= upper) =>
                   (calc.result.adjustedX = x /\ ~calc.result.wasClamped)
            /\ est >= label - 10 => calc.result.adjustedX = 5
            /\ calc.result.barcodeIndex = calc.args[4]

\* a barcode wider than the label allows: the X requested at 12 comes back as 5
C27_RangeCollapsedToTheMargin ==
    /\ calc.fn = "calculateLeftAlignedBarcodeX"
    /\ calc.args[1] >= calc.args[2] - 10
    /\ calc.args[3] = 12
    /\ calc.result.adjustedX = 5
    /\ calc.result.wasClamped

\* k is the ceiling of quarters / 4
IsCeilingOfQuarters(k, quarters) == 4 * k >= quarters /\ 4 * (k - 1) < quarters

\* C28: for every data length n >= 0, narrow-bar width w >= 1 and ratio code
\* r in {0, 1, 2}, estimateBarcodeWidthDots(n, w, r) is the ceiling of
\* (55 + 11 n) * w * (1 + (2.0 + 0.5 r)) / 2, which is (55 + 11 n) * w *
\* (6 + r) quarters of a dot; 55 is 11 start + 11 check + 13 stop + 20
\* quiet-zone modules.
C28_EstimateIsTheCeiling ==
    calc.fn = "estimateBarcodeWidthDots" =>
        LET w == calc.args[3]
            r == calc.args[4]
        IN  /\ 11 + 11 + 13 + 20 = 55
            /\ \A i \in {1, 2} :
                   IsCeilingOfQuarters(calc.result[i], (55 + 11 * calc.args[i]) * w * (6 + r))

\* 55 modules of 1.75 dots: 96.25 dots, estimated as 97
C28_QuarterRoundedUp ==
    /\ calc.fn = "estimateBarcodeWidthDots"
    /\ calc.args[1] = 0 /\ calc.args[3] = 1 /\ calc.args[4] = 1
    /\ calc.result[1] = 97

(***************************************************************************)
(* formatPrinterError on the values sendCPCL rejects with: the two errors  *)
(* of printerService.sendCPCL, the errors of the USB transport for every   *)
(* transfer result, an error without a message and a rejection without a   *)
(* value.  The call is the one of the catch block, which shows the result. *)
(***************************************************************************)
RejectionValues ==
    {ErrorOf(Msg_PrinterNotConnected), ErrorOf(Err_NoValidPrinterConnection),
     ErrorOf(<<>>), NoErrorValue}
        \cup { sendCPCLToUSB(r).error : r \in { u \in UsbResults : ~sendCPCLToUSB(u).resolved } }

CallFormatPrinterError ==
    /\ calc = NoCall
    /\ \E error \in RejectionValues :
          /\ calc' = Call("formatPrinterError", <<error>>, formatPrinterError(error))
          /\ printerFailure(error, sounds, logs, errors)
    /\ UNCHANGED <<leftSerial, rightSerial, detectedType, detectedPrefix, leftValidation,
                   backendNotice, step, refVars, printerConnected, sends, submits,
                   backendAvailability, totalScans, labelsPrinted, typeCounters,
                   history, mounted, serviceVars, ledgerVars>>

\* the texts of the errors below the printer service
VendorTexts ==
    {Err_FailedToSendData, Err_UsbTransferFailedStatus, Err_DeviceDisconnected,
     Err_TransferError, Err_NoValidPrinterConnection, Str_stall, Str_babble, Str_Error}

\* C26: for every value the printer send can reject with, the message shown
\* on the second field is one of the five fixed strings; it contains none of
\* the texts of the transport's errors, and it contains the rejection's own
\* message only where that message is itself one of the fixed strings.
C26_ConciseMessageShown ==
    calc.fn = "formatPrinterError" =>
        LET error == calc.args[1]
        IN  /\ errorMessage = calc.result
            /\ rightValidation = "error"
            /\ errorMessage \in {Msg_PrinterErrorOccurred, Msg_PrinterNotConnected,
                                 Msg_UsbCommunicationError,
                                 Msg_BluetoothCommunicationError,
                                 Msg_FailedToSendToPrinter}
            /\ \A text \in VendorTexts : ~Includes(errorMessage, text)
            /\ (error.present /\ error.message # <<>>
                    /\ Includes(errorMessage, error.message))
                  => error.message = Msg_PrinterNotConnected

\* the transport's 'device was disconnected' error shown as 'Printer not connected'
C26_DisconnectedShownAsNotConnected ==
    /\ calc.fn = "formatPrinterError"
    /\ calc.args = <<ErrorOf(Err_FailedToSendData \o Err_DeviceDisconnected)>>
    /\ errorMessage = Msg_PrinterNotConnected
    /\ rightValidation = "error"

(***************************************************************************)
(* Calls of validateBarcodeData: empty and blank data, data with blanks or *)
(* control characters at either end or inside, and plain data.             *)
(***************************************************************************)
BarcodeDataInputs ==
    {<<>>, <<" ">>, <<"\t", "\n">>, <<" ", "\r", " ">>, <<" ", "A">>, <<"A", " ">>,
     <<"A", "\t", "B">>, <<"A", "\n">>, <<"\r", "A">>, <<"A", " ", "B">>, In_SS1}

CallValidateBarcodeData ==
    /\ CalcFrame
    /\ \E data \in BarcodeDataInputs :
          calc' = Call("validateBarcodeData", <<data>>, validateBarcodeData(data))

\* the data consists of whitespace only (the empty string included)
IsBlank(data) == \A i \in 1..Len(data) : data[i] \in {" ", "\t", "\n", "\r"}

\* what follows a line of the joined text up to the next command word
RECURSIVE RestOfLine(_, _)
RestOfLine(doc, j) ==
    IF j > Len(doc) \/ doc[j].cmd # ""
    THEN <<>>
    ELSE <<"\n">> \o doc[j].text \o RestOfLine(doc, j + 1)

\* the text that follows the numbers of the k-th BARCODE line
BarcodeData(doc, k) ==
    LET i == NthLineWith(doc, "BARCODE", k)
    IN  doc[i].text \o RestOfLine(doc, i + 1)

\* C31: validateBarcodeData returns isValid = false exactly for empty or
\* blank data, then with one error and no warning; for other data it returns
\* isValid = true without errors, with one warning for whitespace at either
\* end and one for a CR, LF or Tab anywhere; and generateCPCL writes both
\* BARCODE lines with the data as given, valid or not.
C31_BarcodeDataValidation ==
    /\ calc.fn = "validateBarcodeData" =>
           LET data == calc.args[1]
               padded == data # <<>>
                           /\ (IsBlank(<<data[1]>>) \/ IsBlank(<<data[Len(data)]>>))
               control == \E i \in 1..Len(data) : data[i] \in {"\r", "\n", "\t"}
           IN  /\ calc.result.isValid <=> ~IsBlank(data)
               /\ IsBlank(data) =>
                      Len(calc.result.errors) = 1 /\ calc.result.warnings = <<>>
               /\ ~IsBlank(data) =>
                      /\ calc.result.errors = <<>>
                      /\ Len(calc.result.warnings) =
                             (IF padded THEN 1 ELSE 0) + (IF control THEN 1 ELSE 0)
    /\ calc.fn = "generateCPCL" =>
           /\ Cardinality(LinesWith(calc.result.text, "BARCODE")) = 2
           /\ BarcodeData(calc.result.text, 1) = calc.args[2]
           /\ BarcodeData(calc.result.text, 2) = calc.args[3]

\* data ending with a line feed: valid, with both warnings
C31_TrailingLineFeedWarned ==
    /\ calc.fn = "validateBarcodeData"
    /\ calc.args = << <<"A", "\n">> >>
    /\ calc.result.isValid
    /\ Len(calc.result.warnings) = 2
    /\ calc.result.errors = <<>>

(***************************************************************************)
(* C32: classification of a rejected remote submission.                    *)
(***************************************************************************)
\* the error carries error code IC0508, or its message or reject message
\* says that the canister is stopped
CarriesStoppedCodeOrText(error) ==
    \/ error.error_code = Str_IC0508
    \/ Includes(error.message, Str_canisterIsStopped)
    \/ (Includes(error.message, Str_Canister) /\ Includes(error.message, Str_isStopped))
    \/ Includes(error.reject_message, Str_canisterIsStopped)
    \/ (Includes(error.reject_message, Str_Canister)
        /\ Includes(error.reject_message, Str_isStopped))

\* the rejection was handled as 'service unavailable': logged at info level
\* and the availability store marked stopped
HandledAsServiceUnavailable ==
    /\ logs'[1].level = "info"
    /\ backendAvailability' = markStopped(Msg_CanisterStopped)

\* the rejection was handled as an other failure: logged at warning level,
\* the availability store left alone
HandledAsOtherFailure ==
    /\ logs'[1].level = "warn"
    /\ backendAvailability' = backendAvailability

\* C32: a rejected remote submission is handled as 'service unavailable'
\* (info log) only when the error carries error code IC0508 or text saying
\* the canister is stopped; every other rejection, such as the backend's
\* trap for a duplicate serial, is handled as an other failure (warn log).
C32_ServiceUnavailableOnlyForStoppedCanister ==
    [][\A i \in 1..Len(submits), error \in SubmitErrors :
          SubmissionRejects(i, error) =>
              IF CarriesStoppedCodeOrText(error)
              THEN HandledAsServiceUnavailable
              ELSE HandledAsOtherFailure]_vars

(***************************************************************************)
(* C33: when a printer send resolves.                                      *)
(***************************************************************************)
\* transferOut settled with status 'ok' and bytesWritten = data.length
TransferComplete(result) ==
    /\ result.settled = "result"
    /\ result.status = <<"o", "k">>
    /\ result.complete

\* C33: a printer send resolves, and the scan flow records a successful
\* print, only if the USB transfer reported status 'ok' and wrote every
\* byte of the encoded document; a transfer with another status, a rejected
\* transfer or a short write makes the send reject.
C33_SendResolvesOnlyOnCompleteTransfer ==
    [][\A i \in 1..Len(sends), result \in UsbResults :
          /\ PrinterSendResolves(i, result) => TransferComplete(result)
          /\ PrinterSendRejects(i, result) => ~TransferComplete(result)]_vars

(***************************************************************************)
(* C34: the global counters and the per-key counters agree.                *)
(***************************************************************************)
RECURSIVE SumOfScans(_, _)
SumOfScans(tc, keys) ==
    IF keys = {} THEN 0
    ELSE LET k == CHOOSE x \in keys : TRUE
         IN  tc[k].scans + SumOfScans(tc, keys \ {k})

RECURSIVE SumOfPrints(_, _)
SumOfPrints(tc, keys) ==
    IF keys = {} THEN 0
    ELSE LET k == CHOOSE x \in keys : TRUE
         IN  tc[k].prints + SumOfPrints(tc, keys \ {k})

\* the success entries the print history holds
SuccessEntries == { i \in 1..Len(history) : history[i].success }

\* C34: after any sequence of scan-flow events, the global scan counter
\* equals the sum of the per-key scan counts over all prefix:labelType keys,
\* and the global print counter equals the sum of the per-key print counts
\* and the number of success entries added to the print history.
C34_CountersAgree ==
    /\ totalScans = SumOfScans(typeCounters, DOMAIN typeCounters)
    /\ labelsPrinted = SumOfPrints(typeCounters, DOMAIN typeCounters)
    /\ labelsPrinted = Cardinality(SuccessEntries)

\* two keys counted: a printed pair of one type and a first scan of another
C34_TwoKeysCounted ==
    /\ totalScans = 3
    /\ labelsPrinted = 1
    /\ Cardinality(DOMAIN typeCounters) = 2
    /\ \E k \in DOMAIN typeCounters : typeCounters[k].scans = 2 /\ typeCounters[k].prints = 1
    /\ \E k \in DOMAIN typeCounters : typeCounters[k].scans = 1 /\ typeCounters[k].prints = 0

(***************************************************************************)
(* The printer service (services/printerService.ts) on its own: connect,   *)
(* disconnect and sendCPCL, each with the outcomes the browser's USB       *)
(* device can give.  printerConnected is the store's isConnected.          *)
(***************************************************************************)
\* calls on the USB device a run may make
MaxDeviceCalls == 4

ServiceResolved(fn) == [fn |-> fn, settled |-> "resolved", error |-> NoErrorValue]
ServiceRejected(fn, message) ==
    [fn |-> fn, settled |-> "rejected", error |-> ErrorOf(message)]

\* requestUSBPrinter: the user picks a device, cancels the chooser, or the
\* device cannot be opened
ConnectOutcomes == {"granted", "cancelled", "failed"}

\* device.close(): the device closes, or the call throws
CloseOutcomes == {"closed", "threw"}

\* printerService.connect('usb')
connect(outcome) ==
    IF outcome = "granted"
    THEN /\ printerConnected' = TRUE
         /\ connectionMethod' = Str_usb
         /\ usbDevice' = UsbPrinter
         /\ serviceCall' = ServiceResolved("connect")
         /\ logs' = AddLogs(logs, <<LogEntry("info", "USB printer connected successfully")>>)
    ELSE IF outcome = "cancelled"
    THEN /\ serviceCall' = ServiceResolved("connect")
         /\ UNCHANGED <<printerConnected, connectionMethod, usbDevice, logs>>
    ELSE /\ serviceCall' = ServiceRejected("connect", Err_DeviceDisconnected)
         /\ logs' = AddLogs(logs, <<LogEntry("error", "Printer connection failed")>>)
         /\ UNCHANGED <<printerConnected, connectionMethod, usbDevice>>

\* printerService.disconnect, with disconnectUSBPrinter
disconnect(outcome) ==
    IF connectionMethod = Str_usb /\ usbDevice # Null
    THEN /\ deviceLog' = Append(deviceLog, "close")
         /\ IF outcome = "threw"
            THEN /\ logs' = AddLogs(logs, <<LogEntry("error", "USB disconnect error")>>)
                 /\ serviceCall' = ServiceRejected("disconnect", Err_DeviceDisconnected)
                 /\ UNCHANGED <<printerConnected, connectionMethod, usbDevice>>
            ELSE /\ logs' = AddLogs(logs, <<LogEntry("info", "USB printer disconnected"),
                                            LogEntry("info", "USB printer disconnected")>>)
                 /\ serviceCall' = ServiceResolved("disconnect")
                 /\ printerConnected' = FALSE
                 /\ connectionMethod' = Null
                 /\ usbDevice' = Null
    ELSE /\ serviceCall' = ServiceResolved("disconnect")
         /\ printerConnected' = FALSE
         /\ connectionMethod' = Null
         /\ usbDevice' = Null
         /\ UNCHANGED <<deviceLog, logs>>

\* printerService.sendCPCL, with the result transferOut settles with
sendCPCL(result) ==
    IF ~printerConnected
    THEN /\ serviceCall' = ServiceRejected("sendCPCL", Msg_PrinterNotConnected)
         /\ UNCHANGED <<deviceLog, logs>>
    ELSE IF connectionMethod = Str_usb /\ usbDevice # Null
    THEN /\ deviceLog' = Append(deviceLog, "transferOut")
         /\ IF sendCPCLToUSB(result).resolved
            THEN /\ serviceCall' = ServiceResolved("sendCPCL")
                 /\ logs' = AddLogs(logs, sendCPCLToUSB(result).logs
                                \o <<LogEntry("info", "CPCL sent to USB printer successfully")>>)
            ELSE /\ serviceCall' = [fn |-> "sendCPCL", settled |-> "rejected",
                                    error |-> sendCPCLToUSB(result).error]
                 /\ logs' = AddLogs(logs, sendCPCLToUSB(result).logs)
    ELSE /\ serviceCall' = ServiceRejected("sendCPCL", Err_NoValidPrinterConnection)
         /\ UNCHANGED <<deviceLog, logs>>

\* what a call of the service leaves alone
ServiceFrame ==
    /\ Len(deviceLog) < MaxDeviceCalls
    /\ UNCHANGED <<sessionVars, refVars, sends, submits, backendAvailability,
                   counterVars, history, sounds, mounted, calc, ledgerVars>>

ServiceConnect(outcome) ==
    /\ ServiceFrame
    /\ connect(outcome)
    /\ UNCHANGED deviceLog

ServiceDisconnect(outcome) ==
    /\ ServiceFrame
    /\ disconnect(outcome)

ServiceSendCPCL(result) ==
    /\ ServiceFrame
    /\ sendCPCL(result)
    /\ UNCHANGED <<printerConnected, connectionMethod, usbDevice>>

NextService ==
    \/ \E outcome \in ConnectOutcomes : ServiceConnect(outcome)
    \/ \E outcome \in CloseOutcomes : ServiceDisconnect(outcome)
    \/ \E result \in UsbResults : ServiceSendCPCL(result)

SpecService == Init /\ [][NextService]_vars

\* C35: after a call of disconnect has settled, whether closing the USB
\* device succeeded or threw, the service has isConnected false, no
\* connection method and no device, and a sendCPCL that follows rejects
\* with 'Printer not connected' without a call on the device.
C35_DisconnectAlwaysClearsTheService ==
    /\ [][(\E outcome \in CloseOutcomes : ServiceDisconnect(outcome)) =>
             /\ ~printerConnected'
             /\ connectionMethod' = Null
             /\ usbDevice' = Null]_vars
    /\ [][(serviceCall.fn = "disconnect"
             /\ \E result \in UsbResults : ServiceSendCPCL(result)) =>
             /\ serviceCall' = ServiceRejected("sendCPCL", Msg_PrinterNotConnected)
             /\ deviceLog' = deviceLog]_vars

(***************************************************************************)
(* The backend actor (backend/main.mo) on its own: updateLabelSettings and *)
(* submitPrintJob.  A trap rolls the call's changes back and is the reply. *)
(* Time.now() is left out of the job.  The access-control module is not    *)
(* part of the sources: hasPermission is true of the registered callers.   *)
(***************************************************************************)
Trap_DuplicateLeft ==
    <<"D", "u", "p", "l", "i", "c", "a", "t", "e", " ", "s", "e", "r", "i", "a", "l", ":", " ", "l", "e", "f", "t", "S", "e", "r", "i", "a", "l", " ", "a", "l", "r", "e", "a", "d", "y", " ", "u", "s", "e", "d">>
Trap_DuplicateRight ==
    <<"D", "u", "p", "l", "i", "c", "a", "t", "e", " ", "s", "e", "r", "i", "a", "l", ":", " ", "r", "i", "g", "h", "t", "S", "e", "r", "i", "a", "l", " ", "a", "l", "r", "e", "a", "d", "y", " ", "u", "s", "e", "d">>
Trap_UnknownPrefix == Msg_UnknownPrefix
Trap_Unauthorized ==
    <<"U", "n", "a", "u", "t", "h", "o", "r", "i", "z", "e", "d", ":", " ", "O", "n", "l", "y", " ", "u", "s", "e", "r", "s", " ", "c", "a", "n", " ", "u", "p", "d", "a", "t", "e", " ", "l", "a", "b", "e", "l", " ", "s", "e", "t", "t", "i", "n", "g", "s">>

\* principals that call the actor: two registered users and the anonymous one
Callers == {"user-1", "user-2", "anonymous"}
hasPermission(caller) == caller # "anonymous"

\* prefixMappings a caller may save: one rule, or two
LedgerSettings ==
    { [prefixMappings |-> << <<Str_SS, [labelType |-> Str_dualBand]>> >>],
      [prefixMappings |-> << <<Str_SS, [labelType |-> Str_dualBand]>>,
                             <<Str_TT, [labelType |-> Str_miniBand]>> >>] }

\* the arguments submitPrintJob is called with
LedgerPrefixes == {Str_SS, Str_TT, <<"X", "Y">>}
LedgerSerials == {In_SS1, <<"S", "S", "2">>, In_TT1}

Replied(fn, trap) == [fn |-> fn, trap |-> trap]

\* Map.fromArray(userSettings.prefixMappings).get(prefix): the entries with
\* that key (the last one wins in the map)
MappingsOf(caller, prefix) ==
    LET list == IF caller \in DOMAIN labelSettings
                THEN labelSettings[caller].prefixMappings
                ELSE <<>>
    IN  { i \in 1..Len(list) : list[i][1] = prefix }

\* Map.add
MapAdd(map, key, value) ==
    [k \in DOMAIN map \cup {key} |-> IF k = key THEN value ELSE map[k]]

\* variant: only the left serial is remembered as used
submitPrintJob_leftOnly(caller, prefix, left, right) ==
    IF left \in usedSerials
    THEN /\ reply' = Replied("submitPrintJob", Trap_DuplicateLeft)
         /\ UNCHANGED <<printHistory, usedSerials, currentId>>
    ELSE IF right \in usedSerials
    THEN /\ reply' = Replied("submitPrintJob", Trap_DuplicateRight)
         /\ UNCHANGED <<printHistory, usedSerials, currentId>>
    ELSE IF MappingsOf(caller, prefix) = {}
    THEN /\ reply' = Replied("submitPrintJob", Trap_UnknownPrefix)
         /\ UNCHANGED <<printHistory, usedSerials, currentId>>
    ELSE LET list == labelSettings[caller].prefixMappings
             prefixMapping == list[CHOOSE i \in MappingsOf(caller, prefix) :
                                      \A j \in MappingsOf(caller, prefix) : j <= i][2]
             newJob == [id |-> currentId, prefix |-> prefix, leftSerial |-> left,
                        rightSerial |-> right,
                        labelType |-> prefixMapping.labelType,
                        printCount |-> 1, owner |-> caller]
         IN  /\ printHistory' = MapAdd(printHistory, currentId, newJob)
             /\ usedSerials' = usedSerials \cup {left}
             /\ currentId' = currentId + 1
             /\ reply' = Replied("submitPrintJob", <<>>)

\* submitPrintJob; usedSerials holds the keys that map to true
submitPrintJob(caller, prefix, left, right) ==
    IF left \in usedSerials
    THEN /\ reply' = Replied("submitPrintJob", Trap_DuplicateLeft)
         /\ UNCHANGED <<printHistory, usedSerials, currentId>>
    ELSE IF right \in usedSerials
    THEN /\ reply' = Replied("submitPrintJob", Trap_DuplicateRight)
         /\ UNCHANGED <<printHistory, usedSerials, currentId>>
    ELSE IF MappingsOf(caller, prefix) = {}
    THEN /\ reply' = Replied("submitPrintJob", Trap_UnknownPrefix)
         /\ UNCHANGED <<printHistory, usedSerials, currentId>>
    ELSE LET list == labelSettings[caller].prefixMappings
             prefixMapping == list[CHOOSE i \in MappingsOf(caller, prefix) :
                                      \A j \in MappingsOf(caller, prefix) : j <= i][2]
             newJob == [id |-> currentId, prefix |-> prefix, leftSerial |-> left,
                        rightSerial |-> right,
                        labelType |-> prefixMapping.labelType,
                        printCount |-> 1, owner |-> caller]
         IN  /\ printHistory' = MapAdd(printHistory, currentId, newJob)
             /\ usedSerials' = usedSerials \cup {left, right}
             /\ currentId' = currentId + 1
             /\ reply' = Replied("submitPrintJob", <<>>)

\* updateLabelSettings
updateLabelSettings(caller, newSettings) ==
    IF ~hasPermission(caller)
    THEN /\ reply' = Replied("updateLabelSettings", Trap_Unauthorized)
         /\ UNCHANGED labelSettings
    ELSE /\ labelSettings' = MapAdd(labelSettings, caller, newSettings)
         /\ reply' = Replied("updateLabelSettings", <<>>)

\* what a call of the actor leaves alone
LedgerFrame ==
    UNCHANGED <<sessionVars, refVars, printerConnected, sends, submits,
                backendAvailability, counterVars, history, logs, sounds, mounted, calc,
                serviceVars>>

SubmitPrintJob(caller, prefix, left, right) ==
    /\ LedgerFrame
    /\ submitPrintJob(caller, prefix, left, right)
    /\ UNCHANGED labelSettings

UpdateLabelSettings(caller, newSettings) ==
    /\ LedgerFrame
    /\ updateLabelSettings(caller, newSettings)
    /\ UNCHANGED <<printHistory, usedSerials, currentId>>

NextLedger ==
    \/ \E caller \in Callers, prefix \in LedgerPrefixes,
          left \in LedgerSerials, right \in LedgerSerials :
          SubmitPrintJob(caller, prefix, left, right)
    \/ \E caller \in Callers, newSettings \in LedgerSettings :
          UpdateLabelSettings(caller, newSettings)

SpecLedger == Init /\ [][NextLedger]_vars

\* the serials of an accepted job
SerialsOf(job) == {job.leftSerial, job.rightSerial}

\* a call of submitPrintJob is answered: no other call of the actor replies
\* under that name
Submitted == reply'.fn = "submitPrintJob" /\ UNCHANGED labelSettings

\* C36: in the backend ledger no serial occurs in two different accepted
\* print jobs, as left or right serial of either; a submission rejected for
\* a duplicate serial or an unknown prefix leaves printHistory, usedSerials
\* and currentId unchanged; and accepted jobs receive the ids 0, 1, 2, ... in
\* acceptance order.
C36_LedgerKeepsSerialsUnique ==
    /\ [](\A i \in DOMAIN printHistory, j \in DOMAIN printHistory :
             i # j => SerialsOf(printHistory[i]) \cap SerialsOf(printHistory[j]) = {})
    /\ [](/\ DOMAIN printHistory = 0..(currentId - 1)
          /\ \A i \in DOMAIN printHistory : printHistory[i].id = i)
    /\ [][(Submitted /\ reply'.trap # <<>>) =>
             UNCHANGED <<printHistory, usedSerials, currentId>>]_vars
    /\ [][(Submitted /\ reply'.trap = <<>>) =>
             /\ currentId' = currentId + 1
             /\ DOMAIN printHistory' = DOMAIN printHistory \cup {currentId}
             /\ currentId \notin DOMAIN printHistory
             /\ printHistory'[currentId].id = Cardinality(DOMAIN printHistory)
             /\ \A i \in DOMAIN printHistory : printHistory'[i] = printHistory[i]]_vars

\* two jobs accepted, each with one serial on both sides, then a submission
\* with a fresh left serial that repeats a used one as the right serial is
\* rejected
C36_DuplicateRejectedAfterTwoJobs ==
    /\ currentId = 2
    /\ reply = Replied("submitPrintJob", Trap_DuplicateRight)
    /\ Cardinality(usedSerials) = 2
    /\ \A i \in DOMAIN printHistory : printHistory[i].id = i

(***************************************************************************)
(* C37: what validateBarcodeSettings lets through                          *)
(* (utils/barcodeSettingsValidation.ts), against the symbology table.      *)
(***************************************************************************)
Str_UPC == <<"U", "P", "C">>

SUPPORTED_BARCODE_TYPES ==
    << Str_CODE128, Str_CODE39, Str_EAN13, Str_EAN8, Str_UPC, Str_UPCA, Str_UPCE,
       Str_I2OF5, Str_CODABAR >>

\* the string | null the validation returns
NoProblem == [isNull |-> TRUE, message |-> ""]
Problem(message) == [isNull |-> FALSE, message |-> message]

\* the three tests of one barcode layout, in the order of the code
BarcodeLayoutProblem(layout, name) ==
    LET heightDots == mmToDotsNumber(TimesWhole(layout.height, layout.scale))
    IN  IF LessOrEqualZero(layout.scale)
        THEN Problem(name \o " scale must be greater than 0")
        ELSE IF layout.height <= 0
        THEN Problem(name \o " height must be greater than 0")
        ELSE IF LessOrEqualZero(heightDots) \/ ~isFinite(heightDots)
        THEN Problem(name \o " computed height is too small to print")
        ELSE NoProblem

validateBarcodeSettings(st) ==
    IF ~(\E i \in 1..Len(SUPPORTED_BARCODE_TYPES) :
            SUPPORTED_BARCODE_TYPES[i] = st.barcodeType)
    THEN Problem("Barcode type is not supported")
    ELSE IF ~BarcodeLayoutProblem(st.barcode1Layout, "Barcode 1").isNull
    THEN BarcodeLayoutProblem(st.barcode1Layout, "Barcode 1")
    ELSE IF ~BarcodeLayoutProblem(st.barcode2Layout, "Barcode 2").isNull
    THEN BarcodeLayoutProblem(st.barcode2Layout, "Barcode 2")
    ELSE IF LessOrEqualZero(st.titleLayout.scale)
    THEN Problem("Title scale must be greater than 0")
    ELSE IF LessOrEqualZero(st.serialText1Layout.scale)
    THEN Problem("Serial Text 1 scale must be greater than 0")
    ELSE IF LessOrEqualZero(st.serialText2Layout.scale)
    THEN Problem("Serial Text 2 scale must be greater than 0")
    ELSE NoProblem

\* settings an operator saves or imports: barcode types in and out of the
\* two lists, in either case, and layouts that pass and fail each test
SavedBarcodeTypes == {Str_CODE128, Str_UPCA, Str_UPC, Str_code39, Str_QR}
SavedHeights == {0, 8}
SavedScales == {Whole(1), Whole(0), NaN}
SavedTextScales == {Whole(1), NegInfinity}

SavedSettings ==
    { [settings EXCEPT
          !.barcodeType = type,
          !.barcode1Layout = [@ EXCEPT !.height = h, !.scale = sc],
          !.barcode2Layout = [@ EXCEPT !.scale = sc2],
          !.serialText2Layout = [@ EXCEPT !.scale = tsc]] :
        type \in SavedBarcodeTypes, h \in SavedHeights, sc \in SavedScales,
        sc2 \in SavedScales, tsc \in SavedTextScales }

\* handleSave and the import handler: the settings are persisted if the
\* validation returns null, and the next label is generated from them
CallValidateBarcodeSettings ==
    /\ CalcFrame
    /\ \E st \in SavedSettings :
          calc' = Call("validateBarcodeSettings", <<st>>,
                       [problem |-> validateBarcodeSettings(st),
                        label |-> IF validateBarcodeSettings(st).isNull
                                  THEN generateCPCL(st, In_SS1, In_SS1, Str_SS)
                                  ELSE [text |-> <<>>, logs |-> <<>>]])

\* C37: every barcode type that validateBarcodeSettings accepts is
\* supported by the CPCL symbology table, so a label generated from
\* settings that passed the validation never uses the fallback symbology.
C37_AcceptedTypesAreInTheTable ==
    (calc.fn = "validateBarcodeSettings" /\ calc.result.problem.isNull) =>
        /\ isBarcodeTypeSupported(calc.args[1].barcodeType)
        /\ getBarcodeMapping(calc.args[1].barcodeType) # FALLBACK_MAPPING
        /\ \A i \in 1..Len(calc.result.label.logs) :
              calc.result.label.logs[i].msg # "Barcode type not supported, using fallback"

InitCalc == Init /\ ~printerConnected

NextCalc ==
    \/ CallGetPrefixMapping
    \/ CallGenerateCPCL
    \/ CallCalculateLeftAlignedBarcodeX
    \/ CallGetBarcodeMapping
    \/ CallClampScale
    \/ CallEstimateBarcodeWidthDots
    \/ CallMmToDots
    \/ CallGenerateCPCLWithTitle
    \/ CallFormatPrinterError
    \/ CallGenerateCPCLForLayout
    \/ CallValidateBarcodeData
    \/ CallValidateBarcodeSettings

SpecCalc == InitCalc /\ [][NextCalc]_vars
=============================================================================
